---- MODULE Spec2Model ----
(***************************************************************************)
(* Model of the synchronization engine of the omni back end:               *)
(*   - token lifecycle of the three platform API clients (api_clients.py,  *)
(*     config_managers.py),                                                *)
(*   - the cursor fetch of the order managers (order_managers.py),         *)
(*   - the windowed wallet fetch of the Shopee client (api_clients.py),    *)
(*   - the rate-limited sheet writer (sheet_manager.py).                   *)
(* Each component has its own specification over the shared variables.     *)
(***************************************************************************)
EXTENDS Integers, Sequences, FiniteSets, TLC

VARIABLES
    \* ---- token lifecycle ----
    now,        \* wall clock read by datetime.now(), in seconds
    plat,       \* the platform integration observed (they share no state)
    cred,       \* in-memory credential of the platform's config manager
    persisted,  \* the credential as last written by save_config
    issued,     \* number of token values the platforms have issued so far
    thr,        \* thread -> state of the call the thread is executing
    \* ---- cursor fetch (BaseOrderManager._fetch_paginated_data) ----
    cf_pc,          \* "idle", "loop" (inside while True), "done" (returned)
    all_data,       \* the list being assembled
    next_cursor,    \* continuation cursor of the next request, NoCursor if none
    page_count,     \* page requests made
    cf_pages,       \* answers to the page requests of this fetch, in order
    cf_slept,       \* tenths of a second slept since the last page request
    cf_sent,        \* next_cursor at each request of the fetch, in order
    fetched_keys,   \* order_sn of every record on a page received so far
    \* ---- windowed wallet fetch (ShopeeAPIClient.get_wallet_transactions) ----
    w_pc,                   \* "idle", "chunk", "page", "done"
    last_day,               \* last second of the month, counted from first_day
    page_size,              \* the page_size argument
    current_start,          \* start of the window being processed
    current_end,            \* end of the window being processed
    windows,                \* (create_time_from, create_time_to) of the windows visited
    page_no,                \* page number inside the window
    transactions,           \* _process_date_range: records kept for the window
    processed_in_range,     \* _process_date_range: keys seen in the window
    all_transactions,       \* records kept for the whole fetch
    processed_transactions, \* keys seen in the whole fetch
    met,                    \* every record received so far, on any page
    first_met,              \* the records that were the first met with their key
    w_failed,               \* the windows (by number) one of whose page requests failed
    w_result,               \* what get_wallet_transactions returns
    w_auth_error,           \* make_request raised an authentication error in this fetch
    w_sent,                 \* what the last make_request of the fetch sent
    w_asked,                \* a page request of this fetch has been sent
    w_slept,                \* tenths of a second slept since the last page request
    \* ---- sheet writer (GSheetManager) ----
    ncreds,                 \* len(credentials_files)
    current_account_index,  \* index into credentials_files
    client_index,           \* credentials file the active client is authorized with
    retry_count,            \* consecutive failures counted by the writer
    last_request_time,      \* instant of the last request, 0 after a rotation
    sk_now,                 \* time.time(), in quarter seconds
    sk_pc,                  \* "idle", "attempt", "done"
    attempt,                \* loop variable of update_status
    sk_log,                 \* attempts of the current write: <<credential used, outcome>>
    sk_result,              \* "none", "True", "False", "raised"
    writes,                 \* update_status calls started
    retry0,                 \* retry_count when the current write started
    index0,                 \* current_account_index when the current write started
    wr,                     \* concurrent callers of update_status on the shared writer
    sh_calls,               \* calls they have started
    sk_delays,              \* dynamic_delay enforced before each failure counted in retry_count
    \* ---- destination worksheet and the operations that resolve and fill it ----
    ws_exists,              \* the spreadsheet has a worksheet of the requested title
    ws_content,             \* its rows
    up_pc,                  \* upload_to_sheet: "idle", "get", "create", "write", "done"
    up_data,                \* the rows to upload
    up_sheet_exists,        \* local sheet_exists of upload_to_sheet
    up_result,              \* "none", "True", "False"
    up_clears,              \* values().clear calls of the upload that succeeded
    up_updates,             \* values().batchUpdate calls of the upload that succeeded
    gc_pc,                  \* _get_or_create_worksheet: "idle", "add", "fallback", "done"
    gc_result,              \* "none", "worksheet", "raised"
    \* ---- order-number hand-off file ----
    ho_pc,                  \* "idle", "written", "read"
    ho_txs,                 \* the order_sn of the transactions exported (<<>>: none or empty)
    ho_file,                \* the text of order_numbers_MM_YYYY.txt
    ho_list,                \* order_sn_list read back from the file
    \* ---- TikTok request signature ----
    sg_pc,                  \* TikTok make_request: "idle", "sent"
    sg_input,               \* params of the caller, in insertion order: <<key, value>> pairs
    sg_payload,             \* payload of the caller, in insertion order, or NoPayload
    sg_params,              \* params of the request sent, in insertion order
    sg_base,                \* wrapped_string, the text that is signed
    sg_body,                \* data of the request sent
    \* ---- credential files (config_managers.py) ----
    cm_pc,                  \* "idle", "saved" (a config file written), "loaded" (a manager built on it)
    cm_plat,                \* platform of the config manager
    cm_self,                \* fields of the manager whose save_config wrote the file
    cm_file,                \* the JSON object in the config file
    cm_loaded,              \* outcome of load_config in a new manager on that file
    \* ---- spreadsheet credential (google_sheets_manager.py) ----
    ga_pc,                  \* "idle", "returned" (an operation of the manager has returned)
    ga_now,                 \* the clock of the spreadsheet credential
    ga_issued,              \* access tokens the authorization server has issued
    token_file,             \* content of google_token.pickle
    ga_creds,               \* self.creds
    ga_service,             \* TRUE when self.service is built
    ga_op,                  \* the operation that returned last
    ga_refresh,             \* "none", "ok", "failed": creds.refresh in that operation
    ga_result               \* what that operation returned

authVars == <<now, plat, cred, persisted, issued, thr>>
cursorVars == <<cf_pc, all_data, next_cursor, page_count, fetched_keys,
                cf_pages, cf_slept, cf_sent>>

walletVars == <<w_pc, last_day, page_size, current_start, current_end, windows,
                page_no, transactions, processed_in_range, all_transactions,
                processed_transactions, met, first_met,
               w_failed, w_result, w_auth_error, w_sent, w_asked, w_slept>>

sinkVars == <<ncreds, current_account_index, client_index, retry_count,
              last_request_time, sk_now, sk_pc, attempt, sk_log, sk_result, writes,
              retry0, index0, sk_delays>>

targetVars == <<ws_exists, ws_content, up_pc, up_data, up_sheet_exists, up_result,
                up_clears, up_updates, gc_pc, gc_result>>

sharedVars == <<wr, sh_calls>>

handoffVars == <<ho_pc, ho_txs, ho_file, ho_list>>

signVars == <<sg_pc, sg_input, sg_payload, sg_params, sg_base, sg_body>>

configVars == <<cm_pc, cm_plat, cm_self, cm_file, cm_loaded>>

googleVars == <<ga_pc, ga_now, ga_issued, token_file, ga_creds, ga_service, ga_op, ga_refresh, ga_result>>

vars == <<authVars, cursorVars, walletVars, sinkVars, targetVars, sharedVars,
          handoffVars,
          signVars,
          configVars,
          googleVars>>

\* what the operations of one component leave alone
nonAuthVars == <<cursorVars, walletVars, sinkVars, targetVars, sharedVars, handoffVars, signVars, configVars, googleVars>>
nonCursorVars == <<authVars, walletVars, sinkVars, targetVars, sharedVars, handoffVars, signVars, configVars, googleVars>>
nonWalletVars == <<authVars, cursorVars, sinkVars, targetVars, sharedVars, handoffVars, signVars, configVars, googleVars>>
nonSinkVars == <<authVars, cursorVars, walletVars, targetVars, sharedVars, handoffVars, signVars, configVars, googleVars>>
nonTargetVars == <<authVars, cursorVars, walletVars, sinkVars, sharedVars, handoffVars, signVars, configVars, googleVars>>
\* what a page request of the wallet fetch leaves alone, the credential apart
nonFetchVars == <<cursorVars, sinkVars, targetVars, sharedVars, handoffVars, signVars, configVars, googleVars>>
\* what a concurrent caller of update_status leaves alone: everything but
\* the fields of the writer, the clock and the callers
nonSharedVars == <<authVars, cursorVars, walletVars, targetVars, ncreds, sk_pc,
                   attempt, sk_log, sk_result, writes, retry0, index0, sk_delays, handoffVars, signVars, configVars, googleVars>>
nonHandoffVars == <<authVars, cursorVars, walletVars, sinkVars, targetVars, sharedVars, signVars, configVars, googleVars>>
nonSignVars == <<authVars, cursorVars, walletVars, sinkVars, targetVars, sharedVars, handoffVars, configVars, googleVars>>
nonConfigVars == <<authVars, cursorVars, walletVars, sinkVars, targetVars, sharedVars, handoffVars, signVars, googleVars>>
nonGoogleVars == <<authVars, cursorVars, walletVars, sinkVars, targetVars, sharedVars, handoffVars, signVars, configVars>>

(***************************************************************************)
(* Bounds of the model                                                     *)
(***************************************************************************)
NThreads == 2       \* concurrent request handlers (Flask serves threaded)
StartTime == 10     \* value of the clock in the initial state
MaxTicks == 1       \* how far the clock advances
ServerTTL == 3600   \* a lifetime the platform states explicitly in a response
MaxPages == 3       \* page requests a cursor API answers with "more" at most
MaxFollowed == 3    \* page requests of one fetch followed against any platform
MaxGoogleTime == 3  \* ticks of the clock of the spreadsheet credential
MaxGoogleTokens == 3 \* access tokens the authorization server issues
GoogleTokenLife == 1 \* ticks an access token of the spreadsheet credential lasts
MaxPageLen == 2     \* records on one page of the cursor API
MaxOrders == 2      \* distinct order_sn values the cursor API holds
MaxCursor == 2      \* distinct continuation cursors the cursor API hands out
MaxPageSize == 2    \* largest page_size argument of the wallet fetch
MaxWindowPages == 3 \* pages of one window the wallet API fills completely, plus one
MaxCreds == 2       \* credential files the sheet writer is configured with at most
MaxWrites == 2      \* update_status calls made on one sheet writer
SinkStartTime == 1000  \* time.time() when the sheet writer is constructed
MaxIssued == 4      \* token values the platform issues at most
MaxSharedCalls == 2 \* update_status calls started by the concurrent callers
MaxSharedElapsed == 40  \* quarter seconds the concurrent callers are followed for
MaxSnLen == 2       \* characters of an order_sn
MaxHandoffTxs == 2  \* transactions handed to export_order_numbers_to_file
MaxSignParams == 3  \* keys of the params, and of the payload, a caller passes
MaxRowKinds == 2    \* distinct rows a worksheet or an upload can hold
MaxSheetRows == 2   \* rows of a worksheet and of an upload

Threads == 1..NThreads
Platforms == {"shopee", "lazada", "tiktok"}

(***************************************************************************)
(* Credential store (config_managers.py)                                   *)
(***************************************************************************)
NoToken == 0        \* the empty string "" of access_token / refresh_token
NoExpiry == -1      \* None of token_expiry / refresh_token_expiry
Absent == -2        \* a field the server response does not carry

ShopeeDefaultExpireIn == 14312
ShopeeRefreshLifetime == 2592000
LazadaDefaultExpiresIn == 2592000
LazadaRefreshLifetime == 15552000   \* timedelta(days=180)

Credential(a, r, e, re) ==
    [access_token |-> a, refresh_token |-> r,
     token_expiry |-> e, refresh_token_expiry |-> re]

\* is_token_expired: same body in the three config managers
IsTokenExpired(c, t) ==
    \/ c.token_expiry = NoExpiry
    \/ c.access_token = NoToken
    \/ t > c.token_expiry

\* is_refresh_token_expired: same body in the three config managers
IsRefreshTokenExpired(c, t) ==
    \/ c.refresh_token_expiry = NoExpiry
    \/ c.refresh_token = NoToken
    \/ t > c.refresh_token_expiry

(***************************************************************************)
(* Responses of a platform to a refresh exchange.  kind:                   *)
(*   "exception"  network / HTTP / JSON error raised by the request        *)
(*   "empty"      a falsy body                                             *)
(*   "error"      the platform's error envelope                            *)
(*   "nodata"     success envelope without the "data" object (TikTok)      *)
(*   "notoken"    success envelope that carries no access_token            *)
(*   "badttl"     tokens present, lifetime field not a number              *)
(*   "ok"         tokens present; has_refresh says whether a refresh_token *)
(*                is carried, expire is the lifetime field or Absent       *)
(***************************************************************************)
Response(k, hr, ex) == [kind |-> k, has_refresh |-> hr, expire |-> ex]

OkResponses == {Response("ok", hr, ex) : hr \in BOOLEAN, ex \in {Absent, ServerTTL}}

ShopeeResponses ==
    {Response(k, FALSE, Absent) :
        k \in {"exception", "empty", "error", "notoken", "badttl"}} \cup OkResponses

LazadaResponses ==
    {Response(k, FALSE, Absent) : k \in {"exception", "error", "badttl"}}
        \cup OkResponses

TiktokResponses ==
    {Response(k, FALSE, Absent) :
        k \in {"exception", "error", "nodata", "notoken", "badttl"}} \cup OkResponses

ResponsesOf(p) ==
    CASE p = "shopee" -> ShopeeResponses
      [] p = "lazada" -> LazadaResponses
      [] p = "tiktok" -> TiktokResponses

\* What a refresh_access_token call leaves behind: its return value, the
\* in-memory credential, and whether save_config wrote it to the config file.
Outcome(ok, c, saved) == [ok |-> ok, cred |-> c, saved |-> saved]

\* ShopeeConfigManager.update_token_info, up to (not including) save_config
ShopeeUpdateTokenInfo(c, access, refresh, expire_in, t) ==
    Credential(access, refresh, t + expire_in, t + ShopeeRefreshLifetime)

\* ShopeeAPIClient.refresh_access_token, from the response on.
\* a, r: the token values the platform issued in an "ok"/"badttl" response.
ShopeeRefresh(c, resp, t, a, r) ==
    CASE resp.kind \in {"exception", "empty", "error", "notoken"} ->
            Outcome(FALSE, c, FALSE)
      [] resp.kind = "badttl" ->
            \* update_token_info assigns both tokens, then timedelta raises
            Outcome(FALSE, [c EXCEPT !.access_token = a, !.refresh_token = r], FALSE)
      [] OTHER ->
            LET expire_in == IF resp.expire = Absent THEN ShopeeDefaultExpireIn
                             ELSE resp.expire
                new_refresh == IF resp.has_refresh THEN r ELSE c.refresh_token
            IN Outcome(TRUE, ShopeeUpdateTokenInfo(c, a, new_refresh, expire_in, t), TRUE)

\* LazadaConfigManager.update_token_info, up to (not including) save_config
LazadaUpdateTokenInfo(c, access, refresh, expires_in, t) ==
    Credential(access, refresh, t + expires_in, t + LazadaRefreshLifetime)

\* LazadaAPIClient.refresh_access_token, from the response on
LazadaRefresh(c, resp, t, a, r) ==
    CASE resp.kind \in {"exception", "error"} -> Outcome(FALSE, c, FALSE)
      [] resp.kind = "badttl" ->
            Outcome(FALSE, [c EXCEPT !.access_token = a, !.refresh_token = r], FALSE)
      [] OTHER ->
            LET expires_in == IF resp.expire = Absent THEN LazadaDefaultExpiresIn
                              ELSE resp.expire
                new_refresh == IF resp.has_refresh THEN r ELSE c.refresh_token
            IN IF a = NoToken \/ new_refresh = NoToken
               THEN Outcome(FALSE, c, FALSE)      \* ValueError before any write
               ELSE Outcome(TRUE,
                            LazadaUpdateTokenInfo(c, a, new_refresh, expires_in, t),
                            TRUE)

\* TiktokConfigManager.update_token_info, up to (not including) save_config.
\* data fields that are missing are given as NoToken / Absent; the two
\* expire fields are absolute timestamps.
TiktokUpdateTokenInfo(c, access, refresh, access_expiry, refresh_expiry) ==
    Credential(access, refresh,
               IF access_expiry = Absent THEN c.token_expiry ELSE access_expiry,
               IF refresh_expiry = Absent THEN c.refresh_token_expiry
               ELSE refresh_expiry)

\* TiktokAPIClient.refresh_access_token, from the response on
TiktokRefresh(c, resp, t, a, r) ==
    CASE resp.kind \in {"exception", "error", "nodata"} -> Outcome(FALSE, c, FALSE)
      [] resp.kind = "badttl" ->
            Outcome(FALSE, [c EXCEPT !.access_token = a, !.refresh_token = r], FALSE)
      [] resp.kind = "notoken" ->
            Outcome(TRUE, TiktokUpdateTokenInfo(c, NoToken, NoToken, Absent, Absent), TRUE)
      [] OTHER ->
            LET new_refresh == IF resp.has_refresh THEN r ELSE NoToken
                ae == IF resp.expire = Absent THEN Absent ELSE t + resp.expire
                re == IF resp.expire = Absent THEN Absent ELSE t + 2 * resp.expire
            IN Outcome(TRUE, TiktokUpdateTokenInfo(c, a, new_refresh, ae, re), TRUE)

RefreshOutcome(p, c, resp, t, a, r) ==
    CASE p = "shopee" -> ShopeeRefresh(c, resp, t, a, r)
      [] p = "lazada" -> LazadaRefresh(c, resp, t, a, r)
      [] p = "tiktok" -> TiktokRefresh(c, resp, t, a, r)

(***************************************************************************)
(* Calls executing on the request-handler threads.                         *)
(*   op "request": api.make_request on a non-bootstrap endpoint            *)
(*   op "refresh": api.refresh_access_token called by a handler directly   *)
(* Thread fields: pc (position), op, resp (kind of the refresh       *)
(* response the call received), result (how the call ended),               *)
(* nrefresh / ndata (refresh exchanges / data requests the call has sent), *)
(* expAtSend (credential was AccessExpired when the data request was       *)
(* sent), pre / prePersisted (credential and config file when the call    *)
(* started), reauth0 (access token and refresh token were both expired     *)
(* when the call started), disturbed (another call wrote the credential     *)
(* since this call started).                                               *)
(***************************************************************************)
IdleThread ==
    [pc |-> "idle", op |-> "request", resp |-> "none",
     result |-> "none", nrefresh |-> 0, ndata |-> 0, expAtSend |-> FALSE,
     pre |-> Credential(NoToken, NoToken, NoExpiry, NoExpiry),
     prePersisted |-> Credential(NoToken, NoToken, NoExpiry, NoExpiry),
     reauth0 |-> FALSE, disturbed |-> FALSE,
     signed |-> NoToken, sent |-> NoToken]

\* Credentials a config file can hold when the program starts
InitialCredentials ==
    { Credential(NoToken, NoToken, NoExpiry, NoExpiry),       \* created empty
      Credential(1, 2, StartTime, StartTime + 1),             \* Valid
      Credential(1, 2, StartTime - 1, StartTime + 1),         \* access expired
      Credential(1, 2, StartTime - 2, StartTime - 1) }        \* both expired

AuthInit ==
    /\ now = StartTime
    /\ plat \in Platforms
    /\ cred \in InitialCredentials
    /\ persisted = cred
    /\ issued = 2
    /\ thr = [t \in Threads |-> IdleThread]

\* Marks the calls of the other threads as disturbed when the credential is
\* written by thread t.
Disturb(th, t, changed) ==
    [u \in Threads |->
        IF u # t /\ changed /\ th[u].pc # "idle"
        THEN [th[u] EXCEPT !.disturbed = TRUE]
        ELSE th[u]]

\* Position of a call after its first statement.  ShopeeAPIClient.make_request
\* starts with is_token_expired(); LazadaAPIClient.make_request and
\* TiktokAPIClient.make_request build and send the request without a check.
FirstPc(p, op, c, t) ==
    IF op = "refresh" THEN "rcheck"
    ELSE IF p = "shopee"
         THEN (IF IsTokenExpired(c, t) THEN "checkRefresh" ELSE "send")
         ELSE "send"

\* A handler thread enters make_request / refresh_access_token.  The
\* threads are interchangeable: they are started in index order.
Call(t, op) ==
    /\ thr[t].pc = "idle"
    /\ \A u \in Threads : u < t => thr[u].pc # "idle"
    /\ thr' = [thr EXCEPT ![t] =
                [IdleThread EXCEPT !.pc = FirstPc(plat, op, cred, now), !.op = op,
                                   !.pre = cred, !.prePersisted = persisted,
                                   !.reauth0 = IsTokenExpired(cred, now)
                                                /\ IsRefreshTokenExpired(cred, now)]]
    /\ UNCHANGED <<now, plat, cred, persisted, issued>>
    /\ UNCHANGED nonAuthVars

ShouldRefresh_Always(c, t) == TRUE

\* Decision of make_request once the access token was found expired:
\* TRUE: call refresh_access_token, FALSE: raise "Both tokens expired".
ShouldRefresh(c, t) == ~IsRefreshTokenExpired(c, t)

\* ShopeeAPIClient.make_request: if not self.config.is_refresh_token_expired()
\* then refresh_access_token() sends the exchange, else raise
CheckRefreshToken(t) ==
    /\ thr[t].pc = "checkRefresh"
    /\ IF ShouldRefresh(cred, now)
       THEN thr' = [thr EXCEPT ![t].pc = "refreshing",
                               ![t].nrefresh = thr[t].nrefresh + 1]
       ELSE thr' = [thr EXCEPT ![t].pc = "done",
                               ![t].result = "ReauthRequired"]
    /\ UNCHANGED <<now, plat, cred, persisted, issued>>
    /\ UNCHANGED nonAuthVars

\* Guard at the head of refresh_access_token: Lazada and TikTok return False
\* without a request when the refresh token is missing or expired; Shopee
\* sends the exchange unconditionally.
RefreshGuard(p, c, t) ==
    IF p = "shopee" THEN TRUE
    ELSE c.refresh_token # NoToken /\ ~IsRefreshTokenExpired(c, t)

\* refresh_access_token called directly: guard, then the exchange is sent
RefreshCall(t) ==
    /\ thr[t].pc = "rcheck"
    /\ IF RefreshGuard(plat, cred, now)
       THEN thr' = [thr EXCEPT ![t].pc = "refreshing",
                               ![t].nrefresh = thr[t].nrefresh + 1]
       ELSE thr' = [thr EXCEPT ![t].pc = "done", ![t].result = "RefreshFalse"]
    /\ UNCHANGED <<now, plat, cred, persisted, issued>>
    /\ UNCHANGED nonAuthVars

\* The platform answers the refresh exchange and refresh_access_token
\* returns; inside make_request a False return raises, a True return goes on
\* to build the request.
RefreshRespond(t, resp) ==
    /\ thr[t].pc = "refreshing"
    /\ resp \in ResponsesOf(plat)
    /\ LET out == RefreshOutcome(plat, cred, resp, now, issued + 1, issued + 2)
           th1 == [thr EXCEPT
                     ![t].resp = resp.kind,
                     ![t].pc = IF out.ok /\ thr[t].op = "request" THEN "send"
                               ELSE "done",
                     ![t].result = IF out.ok
                                   THEN (IF thr[t].op = "request" THEN "none"
                                         ELSE "RefreshTrue")
                                   ELSE (IF thr[t].op = "request"
                                         THEN "RefreshFailed" ELSE "RefreshFalse")]
       IN /\ cred' = out.cred
          /\ persisted' = IF out.saved THEN out.cred ELSE persisted
          /\ issued' = IF resp.kind \in {"ok", "badttl"} THEN issued + 2 ELSE issued
          /\ thr' = Disturb(th1, t, out.cred # cred)
    /\ UNCHANGED <<now, plat>>
    /\ UNCHANGED nonAuthVars

\* make_request builds the signed request from config.access_token and sends
\* it to the platform
Send(t) ==
    /\ thr[t].pc = "send"
    /\ thr' = [thr EXCEPT ![t].pc = "done", ![t].result = "sent",
                          ![t].ndata = thr[t].ndata + 1,
                          ![t].expAtSend = IsTokenExpired(cred, now),
                          ![t].signed = cred.access_token,
                          ![t].sent = cred.access_token]
    /\ UNCHANGED <<now, plat, cred, persisted, issued>>
    /\ UNCHANGED nonAuthVars

\* ShopeeAPIClient.make_request reads config.access_token a first time, for
\* extra_string, the part of the signature base string after the timestamp
ReadForSignature(t) ==
    /\ thr[t].pc = "send"
    /\ thr' = [thr EXCEPT ![t].pc = "signed", ![t].signed = cred.access_token]
    /\ UNCHANGED <<now, plat, cred, persisted, issued>>
    /\ UNCHANGED nonAuthVars

\* and a second time, for the access_token request parameter; the request
\* is sent
ReadForParams(t) ==
    /\ thr[t].pc = "signed"
    /\ thr' = [thr EXCEPT ![t].pc = "done", ![t].result = "sent",
                          ![t].ndata = thr[t].ndata + 1,
                          ![t].expAtSend = IsTokenExpired(cred, now),
                          ![t].sent = cred.access_token]
    /\ UNCHANGED <<now, plat, cred, persisted, issued>>
    /\ UNCHANGED nonAuthVars

\* Time passes
Tick ==
    /\ now < StartTime + MaxTicks
    /\ now' = now + 1
    /\ UNCHANGED <<plat, cred, persisted, issued, thr>>
    /\ UNCHANGED nonAuthVars

AuthNext ==
    \/ \E t \in Threads, op \in {"request", "refresh"} : Call(t, op)
    \/ \E t \in Threads : CheckRefreshToken(t)
    \/ \E t \in Threads : RefreshCall(t)
    \/ \E t \in Threads, resp \in ShopeeResponses \cup TiktokResponses :
            RefreshRespond(t, resp)
    \/ \E t \in Threads : Send(t)
    \/ Tick

\* The Shopee client with the two reads of config.access_token of one
\* make_request as two steps
RequestNext ==
    \/ \E t \in Threads, op \in {"request", "refresh"} : Call(t, op)
    \/ \E t \in Threads : CheckRefreshToken(t)
    \/ \E t \in Threads : RefreshCall(t)
    \/ \E t \in Threads, resp \in ShopeeResponses : RefreshRespond(t, resp)
    \/ \E t \in Threads : ReadForSignature(t)
    \/ \E t \in Threads : ReadForParams(t)
    \/ Tick

(***************************************************************************)
(* Cursor fetch (order_managers.py, BaseOrderManager._fetch_paginated_data) *)
(***************************************************************************)
NoCursor == 0       \* None / "" of next_cursor
RateLimitDelay == 5 \* RATE_LIMIT_DELAY = 0.5, in tenths of a second

Orders == {[order_sn |-> n] : n \in 1..MaxOrders}
Cursors == 1..MaxCursor

RECURSIVE SeqsUpTo(_, _)
\* the sequences over S of length at most n
SeqsUpTo(S, n) ==
    IF n = 0 THEN {<<>>}
    ELSE LET shorter == SeqsUpTo(S, n - 1)
         IN shorter \cup {Append(q, x) : q \in {r \in shorter : Len(r) = n - 1}, x \in S}

\* Answers of api.make_request to one page request.  kind:
\*   "exception"  make_request raises
\*   "none"       falsy response, or no "response" key in it
\*   "page"       response["response"] with data_key list `data`, next_cursor
\*                `cursor` (NoCursor if absent) and the flag `more`
PageResponse(k, d, c, m) == [kind |-> k, data |-> d, cursor |-> c, more |-> m]

PageResponses ==
    {PageResponse(k, <<>>, NoCursor, FALSE) : k \in {"exception", "none"}}
    \cup {PageResponse("page", d, c, m) :
            d \in SeqsUpTo(Orders, MaxPageLen), c \in Cursors \cup {NoCursor},
            m \in BOOLEAN}

\* all_data.extend(page_data)
ExtendAllData(data, page_data) == data \o page_data

CursorLoopEnds_IgnoreEmpty(resp) ==
    \/ resp.kind \in {"exception", "none"}
    \/ ~resp.more
    \/ resp.cursor = NoCursor

\* TRUE when the loop body ends in a break after this response
CursorLoopEnds(resp) ==
    \/ resp.kind \in {"exception", "none"}
    \/ resp.data = <<>>
    \/ ~resp.more
    \/ resp.cursor = NoCursor

CursorInit ==
    /\ cf_pc = "idle"
    /\ all_data = <<>>
    /\ next_cursor = NoCursor
    /\ page_count = 0
    /\ fetched_keys = {}
    /\ cf_pages = <<>>
    /\ cf_slept = 0
    /\ cf_sent = <<>>

\* _fetch_paginated_data is entered: all_data = [], next_cursor = None,
\* page_count = 0
CursorFetchStart ==
    /\ cf_pc = "idle"
    /\ cf_pc' = "loop"
    /\ all_data' = <<>>
    /\ next_cursor' = NoCursor
    /\ page_count' = 0
    /\ fetched_keys' = {}
    /\ cf_pages' = <<>>
    /\ cf_slept' = 0
    /\ cf_sent' = <<>>
    /\ UNCHANGED nonCursorVars

\* One iteration of the while True loop: the request with the current cursor
\* (params["cursor"] is set only when next_cursor is truthy), the platform's
\* answer, and the handling of it.
CursorLoopBody(resp) ==
    /\ cf_pc = "loop"
    /\ resp \in PageResponses
    /\ page_count' = page_count + 1
    /\ cf_sent' = Append(cf_sent, next_cursor)
    /\ IF resp.kind = "page" /\ resp.data # <<>>
       THEN /\ all_data' = ExtendAllData(all_data, resp.data)
            /\ next_cursor' = resp.cursor
            /\ fetched_keys' = fetched_keys \cup
                                {resp.data[i].order_sn : i \in 1..Len(resp.data)}
       ELSE UNCHANGED <<all_data, next_cursor, fetched_keys>>
    /\ cf_pc' = IF CursorLoopEnds(resp) THEN "done" ELSE "loop"
    /\ cf_pages' = Append(cf_pages, resp)
    \* time.sleep(self.RATE_LIMIT_DELAY) is reached when no break is taken
    /\ cf_slept' = IF CursorLoopEnds(resp) THEN 0 ELSE RateLimitDelay
    /\ UNCHANGED nonCursorVars

\* An iteration against a platform that stops announcing more data at the
\* MaxPages-th request.
CursorFetchPage(resp) ==
    /\ page_count + 1 >= MaxPages => CursorLoopEnds(resp)
    /\ CursorLoopBody(resp)

\* An iteration against a platform that answers what it likes; MaxFollowed
\* requests of one fetch are followed.
CursorFetchAnyPage(resp) ==
    /\ page_count < MaxFollowed
    /\ CursorLoopBody(resp)

\* The caller takes the returned list; the manager is ready for another fetch
CursorFetchReturn ==
    /\ cf_pc = "done"
    /\ cf_pc' = "idle"
    /\ UNCHANGED <<all_data, next_cursor, page_count, fetched_keys,
                   cf_pages, cf_slept, cf_sent>>
    /\ UNCHANGED nonCursorVars

CursorNext ==
    \/ CursorFetchStart
    \/ \E resp \in PageResponses : CursorFetchPage(resp)
    \/ CursorFetchReturn

\* the cursor fetch against any platform
CursorAnyNext ==
    \/ CursorFetchStart
    \/ \E resp \in PageResponses : CursorFetchAnyPage(resp)
    \/ CursorFetchReturn

(***************************************************************************)
(* Windowed wallet fetch (api_clients.py, ShopeeAPIClient)                 *)
(* Instants are seconds counted from first_day = datetime(year, month, 1). *)
(***************************************************************************)
SecondsPerDay == 86400
ChunkSpanDays == 14         \* timedelta(days=14)
MaxRequestedPageSize == 100 \* min(page_size, 100)
KeyDescriptionLen == 100    \* description[:100]
WalletPageDelay == 5        \* time.sleep(0.5), in tenths of a second

Months == 1..12
Years == {2023, 2024}

IsLeap(y) == (y % 4 = 0 /\ y % 100 # 0) \/ y % 400 = 0

DaysInMonth(y, m) ==
    IF m = 2 THEN (IF IsLeap(y) THEN 29 ELSE 28)
    ELSE IF m \in {4, 6, 9, 11} THEN 30 ELSE 31

\* get_wallet_transactions: last_day = first day of the next month - 1 second
LastDay(y, m) == DaysInMonth(y, m) * SecondsPerDay - 1

\* current_end = current_start + timedelta(days=14), clipped to last_day
ChunkEnd(start, last) ==
    IF start + ChunkSpanDays * SecondsPerDay > last THEN last
    ELSE start + ChunkSpanDays * SecondsPerDay

NextChunkStart_Overlap(end) == end

\* current_start = current_end + timedelta(seconds=1)
NextChunkStart(end) == end + 1

Min(a, b) == IF a < b THEN a ELSE b

\* Wallet transactions the platform can return.  Two of them differ only
\* after the 100th character of the description.
LongPrefix == [i \in 1..KeyDescriptionLen |-> "d"]

Transaction(ct, sn, tail) ==
    [create_time |-> ct, order_sn |-> sn, amount |-> 5,
     transaction_type |-> "ESCROW", description |-> LongPrefix \o <<tail>>]

\* the wallet records the platform can return
TransactionTable ==
    <<Transaction(SecondsPerDay, "SN1", "x"), Transaction(SecondsPerDay, "SN1", "y"),
      Transaction(2 * SecondsPerDay, "SN2", "x")>>

\* a record in a response or in a list is named by its row of the table
Transactions == DOMAIN TransactionTable

\* _get_transaction_key
TransactionKey(tx) ==
    <<tx.create_time, tx.order_sn, tx.amount, tx.transaction_type,
      SubSeq(tx.description, 1, Min(Len(tx.description), KeyDescriptionLen))>>

\* the key of each record of the table
KeyOf == [n \in Transactions |-> TransactionKey(TransactionTable[n])]

\* a key in a set of seen keys is named by the first row that has it
KeyName ==
    [n \in Transactions |->
        CHOOSE m \in Transactions :
            KeyOf[m] = KeyOf[n] /\ \A k \in Transactions : KeyOf[k] = KeyOf[n] => m <= k]

Kept(list, seen) == [list |-> list, seen |-> seen]

\* the positions of txs whose record is appended by the loop below: its key
\* is not in seen and no earlier record of txs has it
FreshAt(seen, txs) ==
    {i \in DOMAIN txs :
        /\ KeyName[txs[i]] \notin seen
        /\ \A j \in 1..(i - 1) : KeyName[txs[j]] # KeyName[txs[i]]}

\* the records of txs at the positions of the set at, in the order of txs
Picked(txs, at) ==
    [k \in 1..Cardinality(at) |->
        txs[CHOOSE i \in at : Cardinality({j \in at : j < i}) = k - 1]]

\* for tx in txs: if key not in seen: seen.add(key); list.append(tx)
DedupAppend(list, seen, txs) ==
    LET at == FreshAt(seen, txs)
    IN Kept(list \o Picked(txs, at), seen \cup {KeyName[txs[i]] : i \in at})

\* _process_date_range: deduplicate within this date range
DedupInRange(list, seen, txs) == DedupAppend(list, seen, txs)

MergeChunk_NoDedup(list, seen, txs) ==
    Kept(list \o txs, seen \cup {KeyName[txs[i]] : i \in 1..Len(txs)})

\* _get_wallet_transactions_chunked: deduplicate across chunks
MergeChunk(list, seen, txs) == DedupAppend(list, seen, txs)

\* Answers of make_request to one page request of a window
WalletResponse(k, txs) == [kind |-> k, txs |-> txs]

WalletResponses(size) ==
    {WalletResponse(k, <<>>) : k \in {"exception", "none"}}
    \cup {WalletResponse("page", txs) :
            txs \in SeqsUpTo(Transactions, Min(size, MaxRequestedPageSize))}

\* the answers to a request of the largest page size; a request with
\* "page_size": min(page_size, 100) gets at most that many records
AllWalletResponses == WalletResponses(MaxPageSize)

\* TRUE when the while has_more loop ends after this response
WindowEnds(resp, size) ==
    \/ resp.kind \in {"exception", "none"}
    \/ resp.txs = <<>>
    \/ Len(resp.txs) < size

\* the records of txs that no record received earlier shares its key with
FirstMet(firsts, seen, txs) ==
    firsts \cup
    {txs[i] : i \in {k \in DOMAIN txs :
                        /\ \A o \in seen : KeyName[o] # KeyName[txs[k]]
                        /\ \A j \in 1..(k - 1) : KeyName[txs[j]] # KeyName[txs[k]]}}

\* no refresh exchange and no page request
NothingSent == [refresh |-> FALSE, page |-> FALSE]

\* the refresh response of a make_request that sends no refresh exchange
NoRefresh == Response("exception", FALSE, Absent)

\* None
NoResult == [value |-> "None", transaction_list |-> <<>>, more |-> FALSE]

\* {"response": {"transaction_list": all_transactions, "more": False}}
\* if all_transactions else None
FetchResult(list) ==
    IF list = <<>> THEN NoResult
    ELSE [value |-> "response", transaction_list |-> list, more |-> FALSE]

WalletInit ==
    /\ w_pc = "idle"
    /\ last_day = 0
    /\ page_size = 1
    /\ current_start = 0
    /\ current_end = 0
    /\ windows = <<>>
    /\ page_no = 0
    /\ transactions = <<>>
    /\ processed_in_range = {}
    /\ all_transactions = <<>>
    /\ processed_transactions = {}
    /\ met = {}
    /\ first_met = {}
    /\ w_failed = {}
    /\ w_result = NoResult
    /\ w_auth_error = FALSE
    /\ w_sent = NothingSent
    /\ w_asked = FALSE
    /\ w_slept = 0

\* get_wallet_transactions(month, year, tab, page_size) up to the first
\* statement of the while loop of _get_wallet_transactions_chunked
WalletStart(m, y, size) ==
    /\ w_pc = "idle"
    /\ w_pc' = "chunk"
    /\ last_day' = LastDay(y, m)
    /\ page_size' = size
    /\ current_start' = 0
    /\ current_end' = 0
    /\ windows' = <<>>
    /\ page_no' = 0
    /\ transactions' = <<>>
    /\ processed_in_range' = {}
    /\ all_transactions' = <<>>
    /\ processed_transactions' = {}
    /\ met' = {}
    /\ first_met' = {}
    /\ w_failed' = {}
    /\ w_result' = NoResult
    /\ w_auth_error' = FALSE
    /\ w_sent' = NothingSent
    /\ w_asked' = FALSE
    /\ w_slept' = 0
    /\ UNCHANGED nonWalletVars

\* while current_start <= last_day: the window is computed and
\* _process_date_range is entered
WalletChunk ==
    /\ w_pc = "chunk"
    /\ current_start <= last_day
    /\ current_end' = ChunkEnd(current_start, last_day)
    /\ windows' = Append(windows, <<current_start, current_end'>>)
    /\ page_no' = 0
    /\ transactions' = <<>>
    /\ processed_in_range' = {}
    /\ w_pc' = "page"
    /\ UNCHANGED <<last_day, page_size, current_start, all_transactions,
                   processed_transactions, met, first_met, w_failed, w_result,
                   w_auth_error, w_sent, w_asked, w_slept>>
    /\ UNCHANGED nonWalletVars

\* the answers make_request can get to its refresh exchange: it sends one
\* when the access token is expired and the refresh token is not
RefreshAnswers ==
    IF IsTokenExpired(cred, now) /\ ~IsRefreshTokenExpired(cred, now)
    THEN ShopeeResponses ELSE {NoRefresh}

\* One iteration of while has_more in _process_date_range: make_request with
\* its token check, then the handling of the answer; when the loop ends, the
\* window's records are merged and current_start advances.
\* rr: the answer to the refresh exchange, if make_request sends one.
\* resp: the answer to the page request, if make_request sends it.
\* The platform fills at most MaxWindowPages - 1 pages of a window completely.
WalletPage(resp, rr) ==
    /\ w_pc = "page"
    /\ LET expired == IsTokenExpired(cred, now)
           reauth == expired /\ IsRefreshTokenExpired(cred, now)
           exchange == expired /\ ~reauth
           out == ShopeeRefresh(cred, rr, now, issued + 1, issued + 2)
           \* raise Exception("Failed to refresh access token") /
           \* raise Exception("Both tokens expired. Please re-authenticate.")
           auth_error == reauth \/ (exchange /\ ~out.ok)
           answer == IF auth_error THEN WalletResponse("exception", <<>>) ELSE resp
           kept == IF answer.kind = "page"
                   THEN DedupInRange(transactions, processed_in_range, answer.txs)
                   ELSE Kept(transactions, processed_in_range)
           merged == MergeChunk(all_transactions, processed_transactions, kept.list)
       IN /\ rr \in RefreshAnswers
          /\ (exchange /\ rr.kind \in {"ok", "badttl"}) => issued + 2 <= MaxIssued
          /\ auth_error => resp = WalletResponse("exception", <<>>)
          /\ Len(resp.txs) <= Min(page_size, MaxRequestedPageSize)
          /\ page_no + 1 >= MaxWindowPages => WindowEnds(answer, page_size)
          /\ cred' = IF exchange THEN out.cred ELSE cred
          /\ persisted' = IF exchange /\ out.saved THEN out.cred ELSE persisted
          /\ issued' = IF exchange /\ rr.kind \in {"ok", "badttl"}
                       THEN issued + 2 ELSE issued
          /\ w_auth_error' = (w_auth_error \/ auth_error)
          /\ w_sent' = [refresh |-> exchange, page |-> ~auth_error]
          /\ w_asked' = (w_asked \/ ~auth_error)
          \* time.sleep(0.5) is reached when neither a break is taken nor an
          \* exception raised
          /\ w_slept' = IF auth_error THEN w_slept
                        ELSE IF answer.kind = "page" /\ answer.txs # <<>>
                             THEN WalletPageDelay ELSE 0
          /\ page_no' = page_no + 1
          /\ transactions' = kept.list
          /\ processed_in_range' = kept.seen
          /\ IF WindowEnds(answer, page_size)
             THEN /\ all_transactions' = merged.list
                  /\ processed_transactions' = merged.seen
                  /\ current_start' = NextChunkStart(current_end)
                  /\ w_pc' = "chunk"
             ELSE UNCHANGED <<all_transactions, processed_transactions,
                              current_start, w_pc>>
          /\ met' = met \cup {answer.txs[i] : i \in 1..Len(answer.txs)}
          /\ first_met' = FirstMet(first_met, met, answer.txs)
          /\ w_failed' = IF answer.kind \in {"exception", "none"}
                         THEN w_failed \cup {Len(windows)} ELSE w_failed
    /\ UNCHANGED <<last_day, page_size, current_end, windows, w_result>>
    /\ UNCHANGED <<now, plat, thr>>
    /\ UNCHANGED nonFetchVars

\* current_start > last_day: _get_wallet_transactions_chunked returns
WalletFinish ==
    /\ w_pc = "chunk"
    /\ current_start > last_day
    /\ w_pc' = "done"
    /\ w_result' = FetchResult(all_transactions)
    /\ UNCHANGED <<last_day, page_size, current_start, current_end, windows,
                   page_no, transactions, processed_in_range, all_transactions,
                   processed_transactions, met, first_met, w_failed, w_auth_error,
                   w_sent, w_asked, w_slept>>
    /\ UNCHANGED nonWalletVars

\* The caller takes the result; the locals of the fetch are gone and the
\* client is ready for another fetch
WalletReturn ==
    /\ w_pc = "done"
    /\ w_pc' = "idle"
    /\ last_day' = 0
    /\ page_size' = 1
    /\ current_start' = 0
    /\ current_end' = 0
    /\ windows' = <<>>
    /\ page_no' = 0
    /\ transactions' = <<>>
    /\ processed_in_range' = {}
    /\ all_transactions' = <<>>
    /\ processed_transactions' = {}
    /\ met' = {}
    /\ first_met' = {}
    /\ w_failed' = {}
    /\ w_result' = NoResult
    /\ w_auth_error' = FALSE
    /\ w_sent' = NothingSent
    /\ w_asked' = FALSE
    /\ w_slept' = 0
    /\ UNCHANGED nonWalletVars

WalletNext ==
    \/ \E m \in Months, y \in Years, size \in 1..MaxPageSize : WalletStart(m, y, size)
    \/ WalletChunk
    \/ \E rr \in RefreshAnswers : \E resp \in AllWalletResponses : WalletPage(resp, rr)
    \/ WalletFinish
    \/ WalletReturn

\* page sizes a caller can ask for around the cap of min(page_size, 100);
\* 100 is the default of get_wallet_transactions
LargePageSizes == {MaxRequestedPageSize, MaxRequestedPageSize + 1}

\* a page with as many records as a request can ask for
FullPage == [i \in 1..MaxRequestedPageSize |-> ((i - 1) % Len(TransactionTable)) + 1]

\* answers to a page request of a large page size: a failure, an empty page,
\* short pages, a full page
LargeResponses ==
    {WalletResponse(k, <<>>) : k \in {"exception", "none"}}
    \cup {WalletResponse("page", txs) : txs \in {<<>>, <<1>>, <<3>>, <<1, 2>>, FullPage}}

\* the wallet fetch of February 2023 with a large page size
WalletLargeNext ==
    \/ \E size \in LargePageSizes : WalletStart(2, 2023, size)
    \/ WalletChunk
    \/ \E rr \in RefreshAnswers : \E resp \in LargeResponses : WalletPage(resp, rr)
    \/ WalletFinish
    \/ WalletReturn

(***************************************************************************)
(* Rate-limited sheet writer (sheet_manager.py, GSheetManager)             *)
(* Instants and delays are in quarter seconds.                             *)
(***************************************************************************)
RequestDelay == 6       \* self.request_delay = 1.5
MaxDelay == 240         \* self.max_delay = 60
MaxRetries == 5         \* max_retries = 5
SwitchThreshold == 2    \* self.retry_count >= 2

\* random.uniform(0.5, 1.5), in halves
Jitters == {1, 3}

Outcomes == {"ok", "quota", "generic"}

\* how long the calls of one attempt to the Sheets API take: no time, or 0.5 s
CallDurations == {0, 2}

RECURSIVE Pow2(_)
Pow2(n) == IF n = 0 THEN 1 ELSE 2 * Pow2(n - 1)

DynamicDelay_NoCap(retries) == RequestDelay * Pow2(retries)

\* min(self.request_delay * (2**self.retry_count), self.max_delay)
DynamicDelay(retries) == Min(RequestDelay * Pow2(retries), MaxDelay)

\* _rate_limit: the instant at which it returns when entered at instant t
RateLimit(t, last, retries) ==
    IF t - last < DynamicDelay(retries) THEN last + DynamicDelay(retries) ELSE t

\* wait_time = min(base_delay * jitter, self.max_delay)
WaitTime(retries, jitter) == Min((DynamicDelay(retries) * jitter) \div 2, MaxDelay)

\* should_switch of update_status
ShouldSwitch(n, retries, outcome) ==
    n > 1 /\ retries >= SwitchThreshold /\ outcome = "quota"

\* _switch_account: the next index
NextAccount(index, n) == (index + 1) % n

\* a request handler that is not inside update_status
IdleCaller == [pc |-> "idle", attempt |-> 0, until |-> 0, file |-> 0, result |-> "none"]

SinkIdle ==
    /\ current_account_index = 0
    /\ client_index = 0
    /\ retry_count = 0
    /\ last_request_time = 0
    /\ sk_now = SinkStartTime
    /\ sk_pc = "idle"
    /\ attempt = 0
    /\ sk_log = <<>>
    /\ sk_result = "none"
    /\ writes = 0
    /\ retry0 = 0
    /\ index0 = 0
    /\ sk_delays = <<>>
    /\ wr = [t \in Threads |-> IdleCaller]
    /\ sh_calls = 0

\* GSheetManager.__init__ with 1..MaxCreds credential files
SinkInit == ncreds \in 1..MaxCreds /\ SinkIdle

\* the Container's sheet writer: two credential files
SinkContainer == ncreds = 2 /\ SinkIdle

\* update_status is entered
SinkStart ==
    /\ sk_pc = "idle"
    /\ writes < MaxWrites
    /\ writes' = writes + 1
    /\ sk_pc' = "attempt"
    /\ attempt' = 0
    /\ sk_log' = <<>>
    /\ sk_result' = "none"
    /\ retry0' = retry_count
    /\ index0' = current_account_index
    /\ UNCHANGED <<ncreds, current_account_index, client_index, retry_count,
                   last_request_time, sk_now, sk_delays>>
    /\ UNCHANGED nonSinkVars

\* One iteration of for attempt in range(max_retries): _rate_limit, the
\* write with the active client, and the handling of its outcome.
\* took: the duration of the calls to the Sheets API.
\* init_ok: whether _initialize_client succeeds if the account is switched.
SinkAttempt(outcome, took, jitter, init_ok) ==
    /\ sk_pc = "attempt"
    /\ LET t1 == RateLimit(sk_now, last_request_time, retry_count)
           t2 == t1 + took
           switch == ShouldSwitch(ncreds, retry_count, outcome)
           last == attempt + 1 >= MaxRetries
       IN /\ sk_log' = Append(sk_log, <<client_index, outcome>>)
          /\ attempt' = attempt + 1
          /\ IF outcome = "ok"
             THEN /\ retry_count' = 0
                  /\ last_request_time' = t1
                  /\ sk_now' = t2
                  /\ sk_pc' = "done"
                  /\ sk_result' = "True"
                  /\ UNCHANGED <<current_account_index, client_index>>
             ELSE IF switch
             THEN /\ current_account_index' = NextAccount(current_account_index, ncreds)
                  /\ sk_now' = t2
                  /\ IF init_ok
                     THEN /\ client_index' = current_account_index'
                          /\ last_request_time' = 0
                          /\ retry_count' = 0
                          /\ sk_pc' = IF last THEN "done" ELSE "attempt"
                          /\ sk_result' = IF last THEN "False" ELSE "none"
                     ELSE \* _initialize_client raises inside the except block
                          /\ UNCHANGED <<client_index, retry_count>>
                          /\ last_request_time' = t1
                          /\ sk_pc' = "done"
                          /\ sk_result' = "raised"
             ELSE /\ sk_now' = t2 + WaitTime(retry_count, jitter)
                  /\ last_request_time' = t1
                  /\ retry_count' = retry_count + 1
                  /\ sk_pc' = IF last THEN "done" ELSE "attempt"
                  /\ sk_result' = IF last THEN "False" ELSE "none"
                  /\ UNCHANGED <<current_account_index, client_index>>
          /\ sk_delays' = IF retry_count' = 0 THEN <<>>
                          ELSE IF retry_count' = retry_count THEN sk_delays
                          ELSE Append(sk_delays, DynamicDelay(retry_count))
    /\ UNCHANGED <<ncreds, writes, retry0, index0>>
    /\ UNCHANGED nonSinkVars

\* The caller takes the result of update_status
SinkReturn ==
    /\ sk_pc = "done"
    /\ sk_pc' = "idle"
    /\ UNCHANGED <<ncreds, current_account_index, client_index, retry_count,
                   last_request_time, sk_now, attempt, sk_log, sk_result, writes,
                   retry0, index0, sk_delays>>
    /\ UNCHANGED nonSinkVars

SinkNext ==
    \/ SinkStart
    \/ \E outcome \in Outcomes, took \in CallDurations, jitter \in Jitters,
          init_ok \in BOOLEAN :
            SinkAttempt(outcome, took, jitter, init_ok)
    \/ SinkReturn

(***************************************************************************)
(* The Container's sheet writer shared by concurrent request handlers      *)
(* (container.py, sheet_manager.py).  A caller's statements between two    *)
(* blocking operations (time.sleep, a call to the Sheets API) are one      *)
(* step; the callers' steps interleave.                                    *)
(* pc of a caller: "idle", "rate" (entering _rate_limit), "sleep" (inside  *)
(* its time.sleep), "call" (inside the Sheets API calls), "init" (inside   *)
(* _initialize_client of _switch_account), "wait" (inside time.sleep of    *)
(* the except block), "done".                                              *)
(***************************************************************************)
\* for attempt in range(max_retries): the position after the iteration
AfterAttempt(c) ==
    IF c.attempt + 1 >= MaxRetries
    THEN [c EXCEPT !.attempt = c.attempt + 1, !.pc = "done", !.result = "False"]
    ELSE [c EXCEPT !.attempt = c.attempt + 1, !.pc = "rate"]

\* update_status is entered by handler t
SharedStart(t) ==
    /\ wr[t].pc = "idle"
    /\ sh_calls < MaxSharedCalls
    /\ sh_calls' = sh_calls + 1
    /\ wr' = [wr EXCEPT ![t] = [IdleCaller EXCEPT !.pc = "rate"]]
    /\ UNCHANGED <<current_account_index, client_index, retry_count,
                   last_request_time, sk_now>>
    /\ UNCHANGED nonSharedVars

\* _rate_limit up to time.sleep(sleep_time), or to its end when it does not
\* sleep
SharedRateLimit(t) ==
    /\ wr[t].pc = "rate"
    /\ LET t1 == RateLimit(sk_now, last_request_time, retry_count)
       IN IF t1 > sk_now
          THEN /\ wr' = [wr EXCEPT ![t].pc = "sleep", ![t].until = t1]
               /\ UNCHANGED last_request_time
          ELSE /\ wr' = [wr EXCEPT ![t].pc = "call"]
               /\ last_request_time' = sk_now
    /\ UNCHANGED <<current_account_index, client_index, retry_count, sk_now, sh_calls>>
    /\ UNCHANGED nonSharedVars

\* time.sleep(sleep_time) returns: self.last_request_time = time.time()
SharedStamp(t) ==
    /\ wr[t].pc = "sleep"
    /\ sk_now >= wr[t].until
    /\ last_request_time' = sk_now
    /\ wr' = [wr EXCEPT ![t].pc = "call"]
    /\ UNCHANGED <<current_account_index, client_index, retry_count, sk_now, sh_calls>>
    /\ UNCHANGED nonSharedVars

\* The calls to the Sheets API of the attempt end with `outcome`; the
\* statements after them up to the next blocking operation: return True, or
\* the except block up to _initialize_client (should_switch) or up to
\* time.sleep(wait_time)
SharedCall(t, outcome, jitter) ==
    /\ wr[t].pc = "call"
    /\ IF outcome = "ok"
       THEN /\ retry_count' = 0
            /\ wr' = [wr EXCEPT ![t].pc = "done", ![t].result = "True"]
            /\ UNCHANGED current_account_index
       ELSE IF ShouldSwitch(ncreds, retry_count, outcome)
       THEN \* _switch_account up to the calls of _initialize_client, which
            \* has read credentials_files[self.current_account_index]
            /\ current_account_index' = NextAccount(current_account_index, ncreds)
            /\ wr' = [wr EXCEPT ![t].pc = "init", ![t].file = current_account_index']
            /\ UNCHANGED retry_count
       ELSE /\ wr' = [wr EXCEPT ![t].pc = "wait",
                                ![t].until = sk_now + WaitTime(retry_count, jitter)]
            /\ UNCHANGED <<retry_count, current_account_index>>
    /\ UNCHANGED <<client_index, last_request_time, sk_now, sh_calls>>
    /\ UNCHANGED nonSharedVars

\* _initialize_client returns or raises; the rest of _switch_account and of
\* the except block
SharedSwitched(t, init_ok) ==
    /\ wr[t].pc = "init"
    /\ IF init_ok
       THEN /\ client_index' = wr[t].file
            /\ last_request_time' = 0
            /\ retry_count' = 0
            /\ wr' = [wr EXCEPT ![t] = AfterAttempt(wr[t])]
       ELSE /\ wr' = [wr EXCEPT ![t].pc = "done", ![t].result = "raised"]
            /\ UNCHANGED <<client_index, last_request_time, retry_count>>
    /\ UNCHANGED <<current_account_index, sk_now, sh_calls>>
    /\ UNCHANGED nonSharedVars

\* time.sleep(wait_time) returns: self.retry_count += 1
SharedCount(t) ==
    /\ wr[t].pc = "wait"
    /\ sk_now >= wr[t].until
    /\ retry_count' = retry_count + 1
    /\ wr' = [wr EXCEPT ![t] = AfterAttempt(wr[t])]
    /\ UNCHANGED <<current_account_index, client_index, last_request_time, sk_now,
                   sh_calls>>
    /\ UNCHANGED nonSharedVars

\* The handler takes the result of update_status
SharedReturn(t) ==
    /\ wr[t].pc = "done"
    /\ wr' = [wr EXCEPT ![t] = IdleCaller]
    /\ UNCHANGED <<current_account_index, client_index, retry_count,
                   last_request_time, sk_now, sh_calls>>
    /\ UNCHANGED nonSharedVars

\* the callers inside a time.sleep that has not ended
Sleepers == {t \in Threads : wr[t].pc \in {"sleep", "wait"} /\ wr[t].until > sk_now}

\* Time passes until the first of the sleeping callers is due
SharedTimePasses ==
    /\ Sleepers # {}
    /\ \E t \in Sleepers :
          /\ \A u \in Sleepers : wr[t].until <= wr[u].until
          /\ wr[t].until <= SinkStartTime + MaxSharedElapsed
          /\ sk_now' = wr[t].until
    /\ UNCHANGED <<current_account_index, client_index, retry_count,
                   last_request_time, wr, sh_calls>>
    /\ UNCHANGED nonSharedVars

SharedNext ==
    \/ \E t \in Threads : SharedStart(t)
    \/ \E t \in Threads : SharedRateLimit(t)
    \/ \E t \in Threads : SharedStamp(t)
    \/ \E t \in Threads, outcome \in Outcomes, jitter \in Jitters :
            SharedCall(t, outcome, jitter)
    \/ \E t \in Threads, init_ok \in BOOLEAN : SharedSwitched(t, init_ok)
    \/ \E t \in Threads : SharedCount(t)
    \/ \E t \in Threads : SharedReturn(t)
    \/ SharedTimePasses

(***************************************************************************)
(* Destination worksheet: upload_to_sheet (google_sheets_manager.py) and   *)
(* _get_or_create_worksheet (platform_handlers.py)                         *)
(***************************************************************************)
Rows == 1..MaxRowKinds

RowLists == SeqsUpTo(Rows, MaxSheetRows)

\* values().batchUpdate at range A1: the rows of data replace the first
\* rows of the worksheet, the rows below them stay
WriteAtA1(content, data) ==
    [i \in 1..(IF Len(data) > Len(content) THEN Len(data) ELSE Len(content)) |->
        IF i <= Len(data) THEN data[i] ELSE content[i]]

TargetInit ==
    /\ ws_exists \in BOOLEAN
    /\ ws_content \in RowLists
    /\ ws_exists = FALSE => ws_content = <<>>
    /\ up_pc = "idle"
    /\ up_data = <<>>
    /\ up_sheet_exists = FALSE
    /\ up_result = "none"
    /\ up_clears = 0
    /\ up_updates = 0
    /\ gc_pc = "idle"
    /\ gc_result = "none"

\* the destination at rest: an empty spreadsheet and no operation on it
TargetIdle ==
    /\ ws_exists = FALSE
    /\ ws_content = <<>>
    /\ up_pc = "idle"
    /\ up_data = <<>>
    /\ up_sheet_exists = FALSE
    /\ up_result = "none"
    /\ up_clears = 0
    /\ up_updates = 0
    /\ gc_pc = "idle"
    /\ gc_result = "none"

\* Somebody else (another operation, another user of the spreadsheet) adds
\* the worksheet
SheetAppears(content) ==
    /\ ~ws_exists
    /\ ws_exists' = TRUE
    /\ ws_content' = content
    /\ UNCHANGED <<up_pc, up_data, up_sheet_exists, up_result, up_clears, up_updates, gc_pc, gc_result>>
    /\ UNCHANGED nonTargetVars

\* upload_to_sheet is entered; authed: is_authenticated()
UploadStart(data, authed) ==
    /\ up_pc = "idle"
    /\ up_data' = data
    /\ up_clears' = 0
    /\ up_updates' = 0
    /\ up_sheet_exists' = FALSE
    /\ IF authed
       THEN up_pc' = "get" /\ up_result' = "none"
       ELSE up_pc' = "done" /\ up_result' = "False"
    /\ UNCHANGED <<ws_exists, ws_content, gc_pc, gc_result>>
    /\ UNCHANGED nonTargetVars

\* The two spreadsheets().get calls and the search for the title.
\* get_ok: neither call raises.
UploadGet(get_ok) ==
    /\ up_pc = "get"
    /\ IF get_ok
       THEN /\ up_sheet_exists' = ws_exists
            /\ up_pc' = IF ws_exists THEN "write" ELSE "create"
            /\ up_result' = "none"
       ELSE /\ up_pc' = "done"
            /\ up_result' = "False"
            /\ UNCHANGED up_sheet_exists
    /\ UNCHANGED <<ws_exists, ws_content, up_data, up_clears,
                   up_updates, gc_pc, gc_result>>
    /\ UNCHANGED nonTargetVars

\* if not sheet_exists: the addSheet request.  The API refuses a title that
\* exists ("already exists"); add_ok: the request succeeds otherwise.
UploadCreate(add_ok) ==
    /\ up_pc = "create"
    /\ IF ~ws_exists /\ add_ok
       THEN /\ ws_exists' = TRUE
            /\ ws_content' = <<>>
            /\ up_pc' = "write"
            /\ up_result' = "none"
       ELSE \* except Exception as create_error: return False
            /\ up_pc' = "done"
            /\ up_result' = "False"
            /\ UNCHANGED <<ws_exists, ws_content>>
    /\ UNCHANGED <<up_data, up_sheet_exists, up_clears, up_updates,
                   gc_pc, gc_result>>
    /\ UNCHANGED nonTargetVars

\* The clear of an existing worksheet (its failure is only printed) and the
\* values().batchUpdate at A1.
UploadWrite(clear_ok, update_ok) ==
    /\ up_pc = "write"
    /\ LET cleared == up_sheet_exists /\ clear_ok
           content1 == IF cleared THEN <<>> ELSE ws_content
       IN /\ up_clears' = IF cleared THEN up_clears + 1 ELSE up_clears
          /\ IF update_ok
             THEN /\ ws_content' = WriteAtA1(content1, up_data)
                  /\ up_updates' = up_updates + 1
                  /\ up_result' = "True"
             ELSE /\ ws_content' = content1
                  /\ up_result' = "False"
                  /\ UNCHANGED up_updates
    /\ up_pc' = "done"
    /\ UNCHANGED <<ws_exists, up_data, up_sheet_exists, gc_pc, gc_result>>
    /\ UNCHANGED nonTargetVars

\* The caller takes the result of upload_to_sheet
UploadReturn ==
    /\ up_pc = "done"
    /\ up_pc' = "idle"
    /\ UNCHANGED <<ws_exists, ws_content, up_data, up_sheet_exists, up_result,
                   up_clears, up_updates, gc_pc, gc_result>>
    /\ UNCHANGED nonTargetVars

\* _get_or_create_worksheet: sheet.worksheet(sheet_name).
\* lookup_ok: the call raises nothing but WorksheetNotFound.
GetOrCreateLookup(lookup_ok) ==
    /\ gc_pc = "idle"
    /\ IF ~lookup_ok
       THEN gc_pc' = "done" /\ gc_result' = "raised"
       ELSE IF ws_exists
       THEN gc_pc' = "done" /\ gc_result' = "worksheet"
       ELSE gc_pc' = "add" /\ gc_result' = "none"
    /\ UNCHANGED <<ws_exists, ws_content, up_pc, up_data, up_sheet_exists,
                   up_result, up_clears, up_updates>>
    /\ UNCHANGED nonTargetVars

\* except gspread.WorksheetNotFound: sheet.add_worksheet(sheet_name, ...)
GetOrCreateAdd(add_ok) ==
    /\ gc_pc = "add"
    /\ IF ws_exists
       THEN \* "already exists" in str(e)
            /\ gc_pc' = "fallback"
            /\ gc_result' = "none"
            /\ UNCHANGED <<ws_exists, ws_content>>
       ELSE IF add_ok
       THEN /\ ws_exists' = TRUE
            /\ ws_content' = <<>>
            /\ gc_pc' = "done"
            /\ gc_result' = "worksheet"
       ELSE \* raise
            /\ gc_pc' = "done"
            /\ gc_result' = "raised"
            /\ UNCHANGED <<ws_exists, ws_content>>
    /\ UNCHANGED <<up_pc, up_data, up_sheet_exists, up_result, up_clears, up_updates>>
    /\ UNCHANGED nonTargetVars

\* return self.sheet_manager.sheet.worksheet(sheet_name) after "already exists"
GetOrCreateFallback(lookup_ok) ==
    /\ gc_pc = "fallback"
    /\ gc_pc' = "done"
    /\ gc_result' = IF lookup_ok THEN "worksheet" ELSE "raised"
    /\ UNCHANGED <<ws_exists, ws_content, up_pc, up_data, up_sheet_exists,
                   up_result, up_clears, up_updates>>
    /\ UNCHANGED nonTargetVars

\* The caller takes the worksheet or the exception
GetOrCreateReturn ==
    /\ gc_pc = "done"
    /\ gc_pc' = "idle"
    /\ UNCHANGED <<ws_exists, ws_content, up_pc, up_data, up_sheet_exists,
                   up_result, up_clears, up_updates, gc_result>>
    /\ UNCHANGED nonTargetVars

TargetNext ==
    \/ \E content \in RowLists : SheetAppears(content)
    \/ \E data \in RowLists, authed \in BOOLEAN : UploadStart(data, authed)
    \/ \E get_ok \in BOOLEAN : UploadGet(get_ok)
    \/ \E add_ok \in BOOLEAN : UploadCreate(add_ok)
    \/ \E clear_ok \in BOOLEAN, update_ok \in BOOLEAN : UploadWrite(clear_ok, update_ok)
    \/ UploadReturn
    \/ \E lookup_ok \in BOOLEAN : GetOrCreateLookup(lookup_ok)
    \/ \E add_ok \in BOOLEAN : GetOrCreateAdd(add_ok)
    \/ \E lookup_ok \in BOOLEAN : GetOrCreateFallback(lookup_ok)
    \/ GetOrCreateReturn

(***************************************************************************)
(* Order-number hand-off file (wallet_manager.py,                          *)
(* ShopeeWalletManager.export_order_numbers_to_file; platform_handlers.py, *)
(* ShopeePlatformHandler._process_order_numbers_file).                     *)
(* A text is the sequence of its characters.                               *)
(***************************************************************************)
Newline == "\n"
Whitespace == {" ", Newline}
Chars == {"a"} \cup Whitespace

\* the order_sn values a transaction can carry; <<>> stands for a missing
\* or empty order_sn
OrderSns == SeqsUpTo(Chars, MaxSnLen)

\* the orders in which a set can be iterated
Orderings(S) ==
    {q \in SeqsUpTo(S, Cardinality(S)) :
        Len(q) = Cardinality(S) /\ \A x \in S : \E i \in 1..Len(q) : q[i] = x}

RECURSIVE Join_NoSeparator(_, _)
Join_NoSeparator(items, sep) ==
    IF items = <<>> THEN <<>> ELSE Head(items) \o Join_NoSeparator(Tail(items), sep)

RECURSIVE Join(_, _)
\* sep.join(items)
Join(items, sep) ==
    IF items = <<>> THEN <<>>
    ELSE IF Len(items) = 1 THEN Head(items)
    ELSE Head(items) \o <<sep>> \o Join(Tail(items), sep)

RECURSIVE Lines(_, _)
\* the lines met when the text is iterated, without their line ends; cur is
\* the line being read
Lines(text, cur) ==
    IF text = <<>> THEN (IF cur = <<>> THEN <<>> ELSE <<cur>>)
    ELSE IF Head(text) = Newline THEN <<cur>> \o Lines(Tail(text), <<>>)
    ELSE Lines(Tail(text), Append(cur, Head(text)))

RECURSIVE LStrip(_)
LStrip(str) ==
    IF str # <<>> /\ Head(str) \in Whitespace THEN LStrip(Tail(str)) ELSE str

RECURSIVE RStrip(_)
RStrip(str) ==
    IF str # <<>> /\ str[Len(str)] \in Whitespace
    THEN RStrip(SubSeq(str, 1, Len(str) - 1)) ELSE str

\* line.strip()
Strip(str) == RStrip(LStrip(str))

RECURSIVE StripNonEmpty(_)
\* [line.strip() for line in f if line.strip()]
StripNonEmpty(lines) ==
    IF lines = <<>> THEN <<>>
    ELSE IF Strip(Head(lines)) = <<>> THEN StripNonEmpty(Tail(lines))
    ELSE <<Strip(Head(lines))>> \o StripNonEmpty(Tail(lines))

\* order_numbers of export_order_numbers_to_file: the truthy order_sn values
OrderNumbers(txs) == {txs[i] : i \in 1..Len(txs)} \ {<<>>}

\* the transaction lists handed to the export, by their order_sn
HandoffInputs == SeqsUpTo(OrderSns, MaxHandoffTxs)

HandoffIdle ==
    /\ ho_pc = "idle"
    /\ ho_txs = <<>>
    /\ ho_file = <<>>
    /\ ho_list = <<>>

\* export_order_numbers_to_file(transactions, month, year); order: the order
\* in which the set order_numbers is iterated by "\n".join
ExportOrderNumbers(txs, order) ==
    /\ ho_pc = "idle"
    /\ order \in Orderings(OrderNumbers(txs))
    /\ ho_txs' = txs
    /\ ho_file' = Join(order, Newline)
    /\ ho_list' = <<>>
    /\ ho_pc' = "written"
    /\ UNCHANGED nonHandoffVars

\* _process_order_numbers_file up to order_sn_list
ReadOrderNumbers ==
    /\ ho_pc = "written"
    /\ ho_list' = StripNonEmpty(Lines(ho_file, <<>>))
    /\ ho_pc' = "read"
    /\ UNCHANGED <<ho_txs, ho_file>>
    /\ UNCHANGED nonHandoffVars

\* the report is done; another month can be exported
HandoffDone ==
    /\ ho_pc = "read"
    /\ ho_pc' = "idle"
    /\ ho_txs' = <<>>
    /\ ho_file' = <<>>
    /\ ho_list' = <<>>
    /\ UNCHANGED nonHandoffVars

HandoffNext ==
    \/ /\ ho_pc = "idle"
       /\ \E txs \in HandoffInputs :
             \E order \in Orderings(OrderNumbers(txs)) : ExportOrderNumbers(txs, order)
    \/ ReadOrderNumbers
    \/ HandoffDone

(***************************************************************************)
(* TikTok request signature (api_clients.py, TiktokAPIClient.make_request  *)
(* and generate_signature).  A dict is the sequence of its <<key, value>>  *)
(* pairs in insertion order; a text is the sequence of the texts it is     *)
(* the concatenation of.                                                   *)
(***************************************************************************)
NoValue == "<None>"         \* None as the value of a parameter
NoPayload == << <<"<None>", "<None>">> >>   \* payload=None
NoJson == <<"<None>">>      \* json_payload = None

\* the keys of params and payload, in alphabetical order
KeysInOrder ==
    <<"access_token", "app_key", "cursor", "order_status", "page_size",
      "shop_cipher", "shop_id", "sign", "timestamp", "version">>

KeyRank(k) == CHOOSE i \in DOMAIN KeysInOrder : KeysInOrder[i] = k

\* exclude_keys = ["access_token", "sign"]
ExcludeKeys == {"access_token", "sign"}

\* the keys a caller passes in params, and their values
CallerKeys == {"access_token", "sign", "cursor", "page_size"}
ParamValues == {"1", "2", NoValue}
PayloadKeys == {"order_status", "page_size"}
PayloadValues == {"1", "2"}

AppSecret == "app_secret"
TiktokEndpoint == "/order/202309/orders/search"

\* mandatory_params
MandatoryParams ==
    << <<"app_key", "app_key">>, <<"timestamp", "now">>, <<"version", "202309">>,
       <<"shop_cipher", "cipher">>, <<"shop_id", "shop">> >>

\* the dicts over the keys K and the values V with at most n keys
RECURSIVE Dicts(_, _, _)
Dicts(K, V, n) ==
    IF n = 0 THEN {<<>>}
    ELSE LET shorter == Dicts(K, V, n - 1)
         IN shorter \cup
            {Append(d, <<k, v>>) :
                d \in {e \in shorter : Len(e) = n - 1}, k \in K, v \in V}

HasKey(d, k) == \E i \in 1..Len(d) : d[i][1] = k

DistinctKeys(d) == \A i, j \in 1..Len(d) : d[i][1] = d[j][1] => i = j

RECURSIVE DictSet(_, _, _)
\* d[k] = v
DictSet(d, k, v) ==
    IF d = <<>> THEN << <<k, v>> >>
    ELSE IF Head(d)[1] = k THEN << <<k, v>> >> \o Tail(d)
    ELSE <<Head(d)>> \o DictSet(Tail(d), k, v)

RECURSIVE DictUpdate(_, _)
\* d.update(other)
DictUpdate(d, other) ==
    IF other = <<>> THEN d
    ELSE DictUpdate(DictSet(d, Head(other)[1], Head(other)[2]), Tail(other))

RECURSIVE FilterParams(_)
\* {k: str(v) for k, v in params.items() if k not in exclude_keys and v is not None}
FilterParams(params) ==
    IF params = <<>> THEN <<>>
    ELSE IF Head(params)[1] \in ExcludeKeys \/ Head(params)[2] = NoValue
         THEN FilterParams(Tail(params))
    ELSE <<Head(params)>> \o FilterParams(Tail(params))

RECURSIVE InsertByKey(_, _)
InsertByKey(sorted, item) ==
    IF sorted = <<>> THEN <<item>>
    ELSE IF KeyRank(item[1]) < KeyRank(Head(sorted)[1]) THEN <<item>> \o sorted
    ELSE <<Head(sorted)>> \o InsertByKey(Tail(sorted), item)

RECURSIVE SortByKey_AsInserted(_)
SortByKey_AsInserted(items) ==
    IF items = <<>> THEN <<>> ELSE <<Head(items)>> \o SortByKey_AsInserted(Tail(items))

RECURSIVE SortByKey(_)
\* sorted(items, key=lambda x: x[0])
SortByKey(items) ==
    IF items = <<>> THEN <<>>
    ELSE InsertByKey(SortByKey(Tail(items)), Head(items))

RECURSIVE ParamString(_)
\* "".join([f"{k}{v}" for k, v in sorted_params])
ParamString(sorted) ==
    IF sorted = <<>> THEN <<>>
    ELSE <<Head(sorted)[1], Head(sorted)[2]>> \o ParamString(Tail(sorted))

RECURSIVE JsonMembers(_)
JsonMembers(sorted) ==
    IF sorted = <<>> THEN <<>>
    ELSE <<Head(sorted)[1], ":", Head(sorted)[2]>>
         \o (IF Tail(sorted) = <<>> THEN <<>> ELSE <<",">>)
         \o JsonMembers(Tail(sorted))

\* json.dumps(payload, separators=(",", ":"), sort_keys=True)
JsonDumps(payload) == <<"{">> \o JsonMembers(SortByKey(payload)) \o <<"}">>

\* wrapped_string of generate_signature(endpoint, params, payload_str)
WrappedString(endpoint, params, payload_str) ==
    <<AppSecret, endpoint>>
    \o ParamString(SortByKey(FilterParams(params)))
    \o (IF payload_str = NoJson THEN <<>> ELSE payload_str)
    \o <<AppSecret>>

\* hmac.new(key, msg, hashlib.sha256).hexdigest()
HmacSha256(key, msg) == <<"hmac_sha256", key, msg>>

\* generate_signature
GenerateSignature(endpoint, params, payload_str) ==
    HmacSha256(AppSecret, WrappedString(endpoint, params, payload_str))

SignInputs ==
    {d \in Dicts(CallerKeys, ParamValues, MaxSignParams) : DistinctKeys(d)}

SignPayloads ==
    {NoPayload} \cup
    {d \in Dicts(PayloadKeys, PayloadValues, MaxSignParams) : DistinctKeys(d)}

SignIdle ==
    /\ sg_pc = "idle"
    /\ sg_input = <<>>
    /\ sg_payload = NoPayload
    /\ sg_params = <<>>
    /\ sg_base = <<>>
    /\ sg_body = NoJson

\* make_request(endpoint, params=params, payload=payload) up to
\* requests.request; token: self.config.access_token ("" when there is none)
TiktokMakeRequest(params, payload, token) ==
    /\ sg_pc = "idle"
    /\ LET with_mandatory == DictUpdate(params, MandatoryParams)
           json_payload == IF payload = NoPayload THEN NoJson ELSE JsonDumps(payload)
           sign == GenerateSignature(TiktokEndpoint, with_mandatory, json_payload)
           signed == DictSet(with_mandatory, "sign", sign)
       IN /\ sg_input' = params
          /\ sg_payload' = payload
          /\ sg_base' = WrappedString(TiktokEndpoint, with_mandatory, json_payload)
          /\ sg_params' = IF token # "" THEN DictSet(signed, "access_token", token)
                          ELSE signed
          /\ sg_body' = json_payload
    /\ sg_pc' = "sent"
    /\ UNCHANGED nonSignVars

\* the response has been returned to the caller
TiktokRequestDone ==
    /\ sg_pc = "sent"
    /\ sg_pc' = "idle"
    /\ sg_input' = <<>>
    /\ sg_payload' = NoPayload
    /\ sg_params' = <<>>
    /\ sg_base' = <<>>
    /\ sg_body' = NoJson
    /\ UNCHANGED nonSignVars

SignNext ==
    \/ /\ sg_pc = "idle"
       /\ \E params \in SignInputs, payload \in SignPayloads, token \in {"", "1"} :
             TiktokMakeRequest(params, payload, token)
    \/ TiktokRequestDone

(***************************************************************************)
(* Credential files (config_managers.py)                                   *)
(* A Python value is a pair <<type, text>>; a JSON value likewise.         *)
(***************************************************************************)
PyStr(s) == <<"str", s>>
PyInteger(s) == <<"int", s>>        \* the int whose decimal text is s
PyNone == <<"NoneType", "">>
PyDatetime(s) == <<"datetime", s>>  \* the datetime whose isoformat() is s
PyList(s) == <<"list", s>>          \* the list of the strings of s, "" if empty

Numerals == {"0", "7"}
Texts == {"", "x"}
IsoTexts == {"2024-05-01T10:00:00", "2024-05-01T10:00:00.000500"}

\* bool(v)
Truthy(v) ==
    CASE v[1] = "NoneType" -> FALSE
      [] v[1] = "int" -> v[2] # "0"
      [] v[1] = "datetime" -> TRUE
      [] OTHER -> v[2] # ""

Returned(v) == [ok |-> TRUE, v |-> v]
RaisedError == [ok |-> FALSE, v |-> PyNone]

\* int(v): ValueError on a string that is no numeral, TypeError on None or
\* a list
IntOf(v) ==
    CASE v[1] = "int" -> Returned(v)
      [] v[1] = "str" /\ v[2] \in Numerals -> Returned(PyInteger(v[2]))
      [] OTHER -> RaisedError

\* str(v)
StrOf(v) ==
    CASE v[1] = "NoneType" -> PyStr("None")
      [] v[1] = "list" -> PyStr(IF v[2] = "" THEN "[]" ELSE "['x']")
      [] OTHER -> PyStr(v[2])

\* d.isoformat()
IsoFormat(d) == PyStr(d[2])

\* datetime.fromisoformat(s)
FromIsoFormat(s) ==
    IF s[1] = "str" /\ s[2] \in IsoTexts THEN Returned(PyDatetime(s[2]))
    ELSE RaisedError

\* json.dump of a str, int, None or list and json.load of what it wrote
JsonDump(v) ==
    CASE v[1] = "str" -> <<"string", v[2]>>
      [] v[1] = "int" -> <<"number", v[2]>>
      [] v[1] = "NoneType" -> <<"null", "">>
      [] v[1] = "list" -> <<"array", v[2]>>

JsonLoad(j) ==
    CASE j[1] = "string" -> PyStr(j[2])
      [] j[1] = "number" -> PyInteger(j[2])
      [] j[1] = "null" -> PyNone
      [] j[1] = "array" -> PyList(j[2])

\* self.token_expiry.isoformat() if self.token_expiry else None
ExpiryOut(e) == IF Truthy(e) THEN IsoFormat(e) ELSE PyNone

\* datetime.fromisoformat(expiry_str) if expiry_str else None
ExpiryIn(s) == IF Truthy(s) THEN FromIsoFormat(s) ELSE Returned(PyNone)

Expiries == {PyNone} \cup {PyDatetime(s) : s \in IsoTexts}
Strs == {PyStr(s) : s \in Texts}

\* ShopeeConfigManager.__init__: the fields before load_config
ShopeeDefaults ==
    [partner_id |-> PyStr(""), partner_key |-> PyStr(""), shop_id |-> PyStr(""),
     code |-> PyStr(""), access_token |-> PyStr(""), refresh_token |-> PyStr(""),
     token_expiry |-> PyNone, refresh_token_expiry |-> PyNone]

\* the states of a ShopeeConfigManager: partner_id and shop_id are "" until
\* a load_config has read them, integers from then on
ShopeeStates ==
    {[partner_id |-> ids[1], partner_key |-> k, shop_id |-> ids[2], code |-> c,
      access_token |-> a, refresh_token |-> r, token_expiry |-> e,
      refresh_token_expiry |-> e2] :
        ids \in {<<PyStr(""), PyStr("")>>}
                \cup {<<PyInteger(m), PyInteger(n)>> : m, n \in Numerals},
        k \in Strs, c \in Strs, a \in Strs, r \in Strs,
        e \in Expiries, e2 \in Expiries}

\* ShopeeConfigManager.save_config: the object written
ShopeeSave(self) ==
    [partner_id |-> JsonDump(self.partner_id),
     partner_key |-> JsonDump(self.partner_key),
     shop_id |-> JsonDump(self.shop_id),
     code |-> JsonDump(self.code),
     access_token |-> JsonDump(self.access_token),
     refresh_token |-> JsonDump(self.refresh_token),
     token_expiry |-> JsonDump(ExpiryOut(self.token_expiry)),
     refresh_token_expiry |-> JsonDump(ExpiryOut(self.refresh_token_expiry))]

\* the outcome of a load_config: ok is FALSE when it raised, self holds the
\* fields as the assignments made before the raise left them
LoadOutcome(ok, self) == [ok |-> ok, self |-> self]

\* ShopeeConfigManager.load_config on an existing file; every key is in a
\* file that save_config wrote, so config.get never takes its default
ShopeeLoad(config, self) ==
    LET partner_id == IntOf(JsonLoad(config.partner_id))
        shop_id == IntOf(JsonLoad(config.shop_id))
        token_expiry == ExpiryIn(JsonLoad(config.token_expiry))
        refresh_token_expiry == ExpiryIn(JsonLoad(config.refresh_token_expiry))
        s1 == [self EXCEPT !.partner_id = partner_id.v,
                           !.partner_key = StrOf(JsonLoad(config.partner_key))]
        s2 == [s1 EXCEPT !.shop_id = shop_id.v,
                         !.code = JsonLoad(config.code),
                         !.access_token = JsonLoad(config.access_token),
                         !.refresh_token = JsonLoad(config.refresh_token)]
        s3 == [s2 EXCEPT !.token_expiry = token_expiry.v]
        s4 == [s3 EXCEPT !.refresh_token_expiry = refresh_token_expiry.v]
    IN IF ~partner_id.ok THEN LoadOutcome(FALSE, self)
       ELSE IF ~shop_id.ok THEN LoadOutcome(FALSE, s1)
       ELSE IF ~token_expiry.ok THEN LoadOutcome(FALSE, s2)
       ELSE IF ~refresh_token_expiry.ok THEN LoadOutcome(FALSE, s3)
       ELSE LoadOutcome(TRUE, s4)

\* LazadaConfigManager.__init__
LazadaDefaults ==
    [app_key |-> PyStr(""), app_secret |-> PyStr(""), code |-> PyStr(""),
     access_token |-> PyStr(""), refresh_token |-> PyStr(""),
     token_expiry |-> PyNone, refresh_token_expiry |-> PyNone]

LazadaStates ==
    {[app_key |-> k, app_secret |-> s, code |-> c, access_token |-> a,
      refresh_token |-> r, token_expiry |-> e, refresh_token_expiry |-> e2] :
        k \in Strs, s \in Strs, c \in Strs, a \in Strs, r \in Strs,
        e \in Expiries, e2 \in Expiries}

\* LazadaConfigManager.save_config
LazadaSave(self) ==
    [app_key |-> JsonDump(self.app_key),
     app_secret |-> JsonDump(self.app_secret),
     code |-> JsonDump(self.code),
     access_token |-> JsonDump(self.access_token),
     refresh_token |-> JsonDump(self.refresh_token),
     token_expiry |-> JsonDump(ExpiryOut(self.token_expiry)),
     refresh_token_expiry |-> JsonDump(ExpiryOut(self.refresh_token_expiry))]

\* LazadaConfigManager.load_config on an existing file
LazadaLoad(config, self) ==
    LET token_expiry == ExpiryIn(JsonLoad(config.token_expiry))
        refresh_token_expiry == ExpiryIn(JsonLoad(config.refresh_token_expiry))
        s1 == [self EXCEPT !.app_key = StrOf(JsonLoad(config.app_key)),
                           !.app_secret = StrOf(JsonLoad(config.app_secret)),
                           !.code = StrOf(JsonLoad(config.code)),
                           !.access_token = StrOf(JsonLoad(config.access_token)),
                           !.refresh_token = StrOf(JsonLoad(config.refresh_token))]
        s2 == [s1 EXCEPT !.token_expiry = token_expiry.v]
        s3 == [s2 EXCEPT !.refresh_token_expiry = refresh_token_expiry.v]
    IN IF ~token_expiry.ok THEN LoadOutcome(FALSE, s1)
       ELSE IF ~refresh_token_expiry.ok THEN LoadOutcome(FALSE, s2)
       ELSE LoadOutcome(TRUE, s3)

\* TiktokConfigManager.__init__: the fields that save_config writes
TiktokDefaults ==
    [app_key |-> PyStr(""), app_secret |-> PyStr(""), code |-> PyStr(""),
     access_token |-> PyStr(""), refresh_token |-> PyStr(""),
     token_expiry |-> PyNone, refresh_token_expiry |-> PyNone,
     open_id |-> PyStr(""), seller_name |-> PyStr(""), seller_region |-> PyStr(""),
     user_type |-> PyNone, granted_scopes |-> PyList("")]

\* the states of a TiktokConfigManager; the seller fields are empty until
\* update_token_info has stored a grant
TiktokStates ==
    {[app_key |-> k, app_secret |-> k, code |-> c, access_token |-> a,
      refresh_token |-> r, token_expiry |-> e, refresh_token_expiry |-> e2,
      open_id |-> g[1], seller_name |-> g[1], seller_region |-> g[1],
      user_type |-> g[2], granted_scopes |-> g[3]] :
        k \in Strs, c \in Strs, a \in Strs, r \in Strs,
        e \in Expiries, e2 \in Expiries,
        g \in {<<PyStr(""), PyNone, PyList("")>>,
               <<PyStr("x"), PyInteger("0"), PyList("")>>,
               <<PyStr("x"), PyInteger("7"), PyList("x")>>}}

\* TiktokConfigManager.save_config
TiktokSave(self) ==
    [app_key |-> JsonDump(self.app_key),
     app_secret |-> JsonDump(self.app_secret),
     code |-> JsonDump(self.code),
     access_token |-> JsonDump(self.access_token),
     refresh_token |-> JsonDump(self.refresh_token),
     token_expiry |-> JsonDump(ExpiryOut(self.token_expiry)),
     refresh_token_expiry |-> JsonDump(ExpiryOut(self.refresh_token_expiry)),
     open_id |-> JsonDump(self.open_id),
     seller_name |-> JsonDump(self.seller_name),
     seller_region |-> JsonDump(self.seller_region),
     user_type |-> JsonDump(self.user_type),
     granted_scopes |-> JsonDump(self.granted_scopes)]

\* TiktokConfigManager.load_config on an existing file
TiktokLoad(config, self) ==
    LET token_expiry == ExpiryIn(JsonLoad(config.token_expiry))
        refresh_token_expiry == ExpiryIn(JsonLoad(config.refresh_token_expiry))
        s1 == [self EXCEPT !.app_key = StrOf(JsonLoad(config.app_key)),
                           !.app_secret = StrOf(JsonLoad(config.app_secret)),
                           !.code = StrOf(JsonLoad(config.code)),
                           !.access_token = StrOf(JsonLoad(config.access_token)),
                           !.refresh_token = StrOf(JsonLoad(config.refresh_token)),
                           !.open_id = StrOf(JsonLoad(config.open_id)),
                           !.seller_name = StrOf(JsonLoad(config.seller_name)),
                           !.seller_region = StrOf(JsonLoad(config.seller_region)),
                           !.user_type = JsonLoad(config.user_type),
                           !.granted_scopes = JsonLoad(config.granted_scopes)]
        s2 == [s1 EXCEPT !.token_expiry = token_expiry.v]
        s3 == [s2 EXCEPT !.refresh_token_expiry = refresh_token_expiry.v]
    IN IF ~token_expiry.ok THEN LoadOutcome(FALSE, s1)
       ELSE IF ~refresh_token_expiry.ok THEN LoadOutcome(FALSE, s2)
       ELSE LoadOutcome(TRUE, s3)

ConfigPlatforms == {"shopee", "lazada", "tiktok"}

Defaults(p) ==
    CASE p = "shopee" -> ShopeeDefaults
      [] p = "lazada" -> LazadaDefaults
      [] p = "tiktok" -> TiktokDefaults

ConfigStates(p) ==
    CASE p = "shopee" -> ShopeeStates
      [] p = "lazada" -> LazadaStates
      [] p = "tiktok" -> TiktokStates

save_config(p, self) ==
    CASE p = "shopee" -> ShopeeSave(self)
      [] p = "lazada" -> LazadaSave(self)
      [] p = "tiktok" -> TiktokSave(self)

load_config(p, config, self) ==
    CASE p = "shopee" -> ShopeeLoad(config, self)
      [] p = "lazada" -> LazadaLoad(config, self)
      [] p = "tiktok" -> TiktokLoad(config, self)

\* no config file
NoFile == [absent |-> TRUE]
NotLoaded == LoadOutcome(FALSE, NoFile)

ConfigIdle ==
    /\ cm_pc = "idle"
    /\ cm_plat = "shopee"
    /\ cm_self = NoFile
    /\ cm_file = NoFile
    /\ cm_loaded = NotLoaded

\* __init__ with no config file: load_config meets FileNotFoundError and
\* calls save_config on the fields __init__ has set
ConfigFirstLoad(p) ==
    /\ cm_pc = "idle"
    /\ cm_plat' = p
    /\ cm_self' = Defaults(p)
    /\ cm_file' = save_config(p, Defaults(p))
    /\ cm_loaded' = NotLoaded
    /\ cm_pc' = "saved"
    /\ UNCHANGED nonConfigVars

\* update_token_info / update_code: save_config of a manager in state self
ConfigSave(p, self) ==
    /\ cm_pc = "idle"
    /\ self \in ConfigStates(p)
    /\ cm_plat' = p
    /\ cm_self' = self
    /\ cm_file' = save_config(p, self)
    /\ cm_loaded' = NotLoaded
    /\ cm_pc' = "saved"
    /\ UNCHANGED nonConfigVars

\* the next start of the program: __init__ of a new manager, load_config on
\* the file
ConfigLoad ==
    /\ cm_pc = "saved"
    /\ cm_loaded' = load_config(cm_plat, cm_file, Defaults(cm_plat))
    /\ cm_pc' = "loaded"
    /\ UNCHANGED <<cm_plat, cm_self, cm_file>>
    /\ UNCHANGED nonConfigVars

\* the file is removed; the model is ready for another round
ConfigDone ==
    /\ cm_pc = "loaded"
    /\ cm_pc' = "idle"
    /\ cm_plat' = "shopee"
    /\ cm_self' = NoFile
    /\ cm_file' = NoFile
    /\ cm_loaded' = NotLoaded
    /\ UNCHANGED nonConfigVars

ConfigNext ==
    \/ /\ cm_pc = "idle"
       /\ \E p \in ConfigPlatforms : ConfigFirstLoad(p)
    \/ /\ cm_pc = "idle"
       /\ \E p \in ConfigPlatforms : \E self \in ConfigStates(p) : ConfigSave(p, self)
    \/ ConfigLoad
    \/ ConfigDone

(***************************************************************************)
(* Spreadsheet credential (google_sheets_manager.py, GoogleSheetsManager)  *)
(***************************************************************************)
\* what google_token.pickle or self.creds can hold: nothing (no file), None,
\* or a Credentials object; token and refresh_token are 0 when None
NoTokenFile == [kind |-> "absent", token |-> 0, refresh_token |-> 0, expiry |-> 0]
NoCreds == [kind |-> "None", token |-> 0, refresh_token |-> 0, expiry |-> 0]
Credentials(t, r, e) == [kind |-> "creds", token |-> t, refresh_token |-> r, expiry |-> e]

\* creds.expired, creds.valid at the time t
CredsExpired(c, t) == c.kind = "creds" /\ t >= c.expiry
CredsValid(c, t) == c.kind = "creds" /\ c.token # 0 /\ ~CredsExpired(c, t)

\* what _authenticate does with the credential c it starts from when the
\* authorization server answers a refresh with resp, "ok" or "failed"
Authenticated(c, resp, t, fresh) ==
    IF c.kind = "creds" /\ CredsValid(c, t)
    THEN [creds |-> c, written |-> FALSE, refresh |-> "none", returned |-> TRUE]
    ELSE IF c.kind = "creds" /\ CredsExpired(c, t) /\ c.refresh_token # 0
    THEN IF resp = "ok"
         THEN \* self.creds.refresh(Request()), then pickle.dump(self.creds)
              [creds |-> Credentials(fresh, c.refresh_token, t + GoogleTokenLife),
               written |-> TRUE, refresh |-> "ok", returned |-> TRUE]
         ELSE \* except: self.creds = None, then pickle.dump(self.creds)
              [creds |-> NoCreds, written |-> TRUE, refresh |-> "failed",
               returned |-> FALSE]
    ELSE [creds |-> NoCreds, written |-> FALSE, refresh |-> "none",
          returned |-> FALSE]

GoogleIdle ==
    /\ ga_pc = "idle"
    /\ ga_now = 0
    /\ ga_issued = 0
    /\ token_file = NoTokenFile
    /\ ga_creds = NoCreds
    /\ ga_service = FALSE
    /\ ga_op = "none"
    /\ ga_refresh = "none"
    /\ ga_result = FALSE

\* __init__: self.creds = None, self.service = None, then _authenticate
GoogleAuthenticate(resp) ==
    /\ ga_pc = "idle"
    /\ ga_issued < MaxGoogleTokens
    /\ LET start == IF token_file.kind = "absent" THEN NoCreds ELSE token_file
           out == Authenticated(start, resp, ga_now, ga_issued + 1)
       IN /\ ga_creds' = out.creds
          /\ token_file' = IF out.written THEN out.creds ELSE token_file
          /\ ga_issued' = IF out.refresh = "ok" THEN ga_issued + 1 ELSE ga_issued
          /\ ga_service' = out.returned
          /\ ga_refresh' = out.refresh
          /\ ga_result' = out.returned
    /\ ga_op' = "authenticate"
    /\ ga_pc' = "returned"
    /\ UNCHANGED ga_now
    /\ UNCHANGED nonGoogleVars

\* handle_auth_callback with a code the server accepts: the credentials of
\* the grant are stored, with a refresh token or without one
GoogleGrant(with_refresh) ==
    /\ ga_pc = "idle"
    /\ ga_issued < MaxGoogleTokens
    /\ ga_issued' = ga_issued + 1
    /\ ga_creds' = Credentials(ga_issued + 1, IF with_refresh THEN 1 ELSE 0,
                               ga_now + GoogleTokenLife)
    /\ token_file' = ga_creds'
    /\ ga_service' = TRUE
    /\ ga_op' = "grant"
    /\ ga_refresh' = "none"
    /\ ga_result' = TRUE
    /\ ga_pc' = "returned"
    /\ UNCHANGED ga_now
    /\ UNCHANGED nonGoogleVars

\* logout: the token file is removed if it exists
GoogleLogout ==
    /\ ga_pc = "idle"
    /\ token_file' = NoTokenFile
    /\ ga_creds' = NoCreds
    /\ ga_service' = FALSE
    /\ ga_op' = "logout"
    /\ ga_refresh' = "none"
    /\ ga_result' = TRUE
    /\ ga_pc' = "returned"
    /\ UNCHANGED <<ga_now, ga_issued>>
    /\ UNCHANGED nonGoogleVars

\* the program ends or goes on to its next operation
GoogleReturn ==
    /\ ga_pc = "returned"
    /\ ga_pc' = "idle"
    /\ UNCHANGED <<ga_now, ga_issued, token_file, ga_creds, ga_service, ga_op,
                   ga_refresh, ga_result>>
    /\ UNCHANGED nonGoogleVars

GoogleTick ==
    /\ ga_pc = "idle"
    /\ ga_now < MaxGoogleTime
    /\ ga_now' = ga_now + 1
    /\ UNCHANGED <<ga_pc, ga_issued, token_file, ga_creds, ga_service, ga_op,
                   ga_refresh, ga_result>>
    /\ UNCHANGED nonGoogleVars

GoogleNext ==
    \/ \E resp \in {"ok", "failed"} : GoogleAuthenticate(resp)
    \/ \E with_refresh \in BOOLEAN : GoogleGrant(with_refresh)
    \/ GoogleLogout
    \/ GoogleReturn
    \/ GoogleTick

(***************************************************************************)
(* Specifications                                                          *)
(***************************************************************************)
\* the components added to the core ones, at rest
RestIdle == HandoffIdle /\ SignIdle /\ ConfigIdle /\ GoogleIdle

\* The token lifecycle at rest: the state the other specifications leave it in
AuthIdle ==
    /\ now = StartTime
    /\ plat = "shopee"
    /\ cred = Credential(1, 2, StartTime, StartTime + 1)
    /\ persisted = cred
    /\ issued = 2
    /\ thr = [t \in Threads |-> IdleThread]

Init == AuthInit /\ CursorInit /\ WalletInit /\ SinkContainer /\ TargetIdle /\ RestIdle

Next ==
    \/ AuthNext \/ CursorNext \/ WalletNext \/ SinkNext \/ TargetNext \/ SharedNext
    \/ HandoffNext \/ SignNext \/ RequestNext \/ CursorAnyNext
    \/ WalletLargeNext \/ ConfigNext \/ GoogleNext

Spec == Init /\ [][Next]_vars

\* the token lifecycle alone
InitAuth == AuthInit /\ CursorInit /\ WalletInit /\ SinkContainer /\ TargetIdle /\ RestIdle

SpecAuth == InitAuth /\ [][AuthNext]_vars

\* one order manager fetching with a cursor
InitCursor == AuthIdle /\ CursorInit /\ WalletInit /\ SinkContainer /\ TargetIdle /\ RestIdle

SpecCursor == InitCursor /\ [][CursorNext]_vars

\* one wallet fetch of the Shopee client
InitWallet == AuthIdle /\ CursorInit /\ WalletInit /\ SinkContainer /\ TargetIdle /\ RestIdle

SpecWallet == InitWallet /\ [][WalletNext]_vars

\* one wallet fetch at a time on a Shopee credential that ages
InitFetchAuth ==
    /\ now = StartTime
    /\ plat = "shopee"
    /\ cred \in InitialCredentials
    /\ persisted = cred
    /\ issued = 2
    /\ thr = [t \in Threads |-> IdleThread]
    /\ CursorInit /\ WalletInit /\ SinkContainer /\ TargetIdle /\ RestIdle

\* the fetches of February 2023 (two windows), while time passes
InitWalletLarge ==
    AuthIdle /\ CursorInit /\ WalletInit /\ SinkContainer /\ TargetIdle /\ RestIdle

SpecWalletLarge == InitWalletLarge /\ [][WalletLargeNext]_vars

FetchAuthNext ==
    \/ \E size \in 1..MaxPageSize : WalletStart(2, 2023, size)
    \/ WalletChunk
    \/ \E rr \in RefreshAnswers : \E resp \in AllWalletResponses : WalletPage(resp, rr)
    \/ WalletFinish
    \/ WalletReturn
    \/ Tick

SpecFetchAuth == InitFetchAuth /\ [][FetchAuthNext]_vars

\* the Container's sheet writer and the request handlers that share it
InitShared == AuthIdle /\ CursorInit /\ WalletInit /\ SinkContainer /\ TargetIdle /\ RestIdle

SpecShared == InitShared /\ [][SharedNext]_vars

\* the core components at rest
CoreIdle == AuthIdle /\ CursorInit /\ WalletInit /\ SinkContainer /\ TargetIdle

\* one export of order numbers and the reading of the file, again and again
InitHandoff == CoreIdle /\ RestIdle

\* one credential file written and read back after the other
InitConfig == CoreIdle /\ RestIdle

SpecConfig == InitConfig /\ [][ConfigNext]_vars

\* the spreadsheet credential over starts of the program, grants and logouts
InitGoogle == CoreIdle /\ RestIdle

SpecGoogle == InitGoogle /\ [][GoogleNext]_vars

\* one signed TikTok request after the other
InitSign == CoreIdle /\ RestIdle

SpecSign == InitSign /\ [][SignNext]_vars

SpecHandoff == InitHandoff /\ [][HandoffNext]_vars

\* request handlers on the Shopee client, the reads of the token apart
InitRequest ==
    /\ AuthInit /\ plat = "shopee"
    /\ CursorInit /\ WalletInit /\ SinkContainer /\ TargetIdle /\ RestIdle

SpecRequest == InitRequest /\ [][RequestNext]_vars

\* one cursor fetch after the other, the platform answering what it likes
InitCursorAny ==
    AuthIdle /\ CursorInit /\ WalletInit /\ SinkContainer /\ TargetIdle /\ RestIdle

SpecCursorAny == InitCursorAny /\ [][CursorAnyNext]_vars

\* one sheet writer, its writes one after the other
InitSink == AuthIdle /\ CursorInit /\ WalletInit /\ SinkInit /\ TargetIdle /\ RestIdle

SpecSink == InitSink /\ [][SinkNext]_vars

\* one destination worksheet, one upload and one worksheet resolution at a time
InitTarget == AuthIdle /\ CursorInit /\ WalletInit /\ SinkContainer /\ TargetInit /\ RestIdle

SpecTarget == InitTarget /\ [][TargetNext]_vars

(***************************************************************************)
(* Token lifecycle: claims                                                 *)
(***************************************************************************)
ShopeeRequest(t) ==
    plat = "shopee" /\ thr[t].op = "request" /\ thr[t].pc # "idle"

\* C1: among the Shopee make_request calls that started on the same expired
\* credential, at most one sends a refresh exchange: while the refresh of one
\* caller is in flight or has succeeded, no other caller has sent its own.
C1_SingleRefresh ==
    \A t, u \in Threads :
        ( /\ t # u
          /\ ShopeeRequest(t) /\ ShopeeRequest(u)
          /\ thr[t].pre = thr[u].pre
          /\ thr[t].nrefresh > 0
          /\ thr[t].result # "RefreshFailed" )
        => thr[u].nrefresh = 0

\* C2: on every platform, no non-bootstrap request is sent while the
\* credential is AccessExpired.
C2_NoSendWhileExpired ==
    \A t \in Threads : thr[t].ndata > 0 => ~thr[t].expAtSend

\* C3: a Shopee make_request call that starts with the access token and the
\* refresh token both expired sends neither a refresh exchange nor the data
\* request, ends with the re-authentication error, and leaves the credential
\* (in memory and in the config file) as it was.
C3_ReauthNoNetwork ==
    \A t \in Threads :
        (ShopeeRequest(t) /\ thr[t].reauth0 /\ ~thr[t].disturbed)
        => /\ thr[t].nrefresh = 0
           /\ thr[t].ndata = 0
           /\ thr[t].pc \in {"checkRefresh", "done"}
           /\ thr[t].pc = "done" => thr[t].result = "ReauthRequired"
           /\ cred = thr[t].pre
           /\ persisted = thr[t].prePersisted

C3_Witness ==
    \E t \in Threads :
        /\ ShopeeRequest(t) /\ thr[t].reauth0 /\ ~thr[t].disturbed
        /\ thr[t].pc = "done" /\ thr[t].result = "ReauthRequired"
        /\ thr[t].pre.access_token # NoToken

\* The step in which refresh_access_token of thread t returns True
RefreshSucceeds(t) ==
    /\ thr[t].pc = "refreshing"
    /\ thr'[t].pc = "send" \/ thr'[t].result = "RefreshTrue"

\* C4: on each platform, when refresh_access_token reports success the access
\* token is a new one, both expiries have been set to instants not before the
\* current time, the config file holds the same
\* credential, and the credential is Valid.
C4_RefreshSuccessPersistsValid ==
    [][\A t \in Threads :
          RefreshSucceeds(t)
          => /\ cred'.access_token \notin {NoToken, cred.access_token}
             /\ cred'.token_expiry >= now'
             /\ cred'.refresh_token_expiry >= now'
             /\ persisted' = cred'
             /\ ~IsTokenExpired(cred', now')]_vars

\* The refresh responses the claim lists as failures of the exchange
FailedExchange == {"exception", "empty", "error", "notoken"}

\* C5: when the refresh exchange fails, the credential is unchanged in memory
\* and in the config file and the failure is reported to the caller.
C5_RefreshFailureKeepsCredential ==
    [][\A t \in Threads :
          (thr[t].pc = "refreshing" /\ thr'[t].pc # "refreshing"
              /\ thr'[t].resp \in FailedExchange)
          => /\ cred' = cred
             /\ persisted' = persisted
             /\ thr'[t].result \in {"RefreshFailed", "RefreshFalse"}]_vars

\* C26: when a Shopee request is sent, the access token that went into the
\* signature base string is the token sent as the access_token parameter,
\* and it is the token the credential holds, also when another thread
\* refreshes the credential while the request is prepared.
C26_SignedTokenIsSentToken ==
    [][\A t \in Threads :
          (thr[t].result # "sent" /\ thr'[t].result = "sent")
            => /\ thr'[t].signed = thr'[t].sent
               /\ thr'[t].sent = cred.access_token]_vars

\* C24: for every page_size, a window is left after a page only when that
\* page held fewer records than min(page_size, 100), the size the request
\* asked for; a window is never ended after a page that was full with
\* respect to the requested size.
C24_WindowEndsOnShortPage ==
    [][\A resp \in LargeResponses, rr \in RefreshAnswers :
          (WalletPage(resp, rr) /\ resp.kind = "page" /\ w_pc' = "chunk")
            => Len(resp.txs) < Min(page_size, MaxRequestedPageSize)]_vars

(***************************************************************************)
(* Cursor fetch: claims                                                    *)
(***************************************************************************)
\* C6: the list returned by the cursor fetch holds each record once: its
\* length equals the number of distinct DedupKeys (order_sn) on the pages
\* fetched.
C6_EachRecordOnce ==
    cf_pc = "done" => Len(all_data) = Cardinality(fetched_keys)

\* C21: the number of page requests of one cursor fetch is bounded whatever
\* the platform answers: a fetch that has made MaxFollowed requests asks for
\* no further page.
C21_PageRequestsBounded == cf_pc = "loop" => page_count < MaxFollowed

\* C25: no cursor value is sent in more than one request of a cursor fetch,
\* whatever cursors the platform returns; the request without cursor is the
\* first one only.
C25_NoCursorSentTwice ==
    \A i, j \in DOMAIN cf_sent : i < j => cf_sent[i] # cf_sent[j]

\* a page that is non-empty, reports more data and carries a cursor
AsksForMore(resp) ==
    /\ resp.kind = "page"
    /\ resp.data # <<>>
    /\ resp.more
    /\ resp.cursor # NoCursor

NonEmptyPage(resp) == resp.kind = "page" /\ resp.data # <<>>

RECURSIVE ConcatPages(_)
\* the records of the pages, in the order of the pages
ConcatPages(pages) ==
    IF pages = <<>> THEN <<>>
    ELSE Head(pages).data \o ConcatPages(Tail(pages))

\* C19: the cursor fetch goes on to a further page request exactly when the
\* page just received is non-empty, reports more data and carries a cursor
\* (an empty page ends the loop even with a cursor), and a page request other
\* than the first follows such a page; when the k pages received are all
\* non-empty and the last reports no more data, the fetch has made exactly k
\* requests and returns the concatenation of the k pages.
C19_CursorContinuation ==
    /\ [][page_count' = page_count + 1 =>
             /\ (cf_pc' = "loop") <=> AsksForMore(cf_pages'[Len(cf_pages')])
             /\ page_count >= 1 => AsksForMore(cf_pages[Len(cf_pages)])
             /\ Len(cf_pages') = page_count']_vars
    /\ [](( /\ cf_pc = "done"
            /\ cf_pages # <<>>
            /\ \A i \in 1..Len(cf_pages) : NonEmptyPage(cf_pages[i])
            /\ ~cf_pages[Len(cf_pages)].more )
          => /\ page_count = Len(cf_pages)
             /\ all_data = ConcatPages(cf_pages))

\* three pages of 2, 2 and 1 records, the last without more data: 5 records
\* in 3 requests
C19_Witness ==
    /\ cf_pc = "done"
    /\ page_count = 3
    /\ Len(cf_pages) = 3
    /\ \A i \in 1..2 : AsksForMore(cf_pages[i]) /\ Len(cf_pages[i].data) = 2
    /\ NonEmptyPage(cf_pages[3]) /\ Len(cf_pages[3].data) = 1
    /\ ~cf_pages[3].more
    /\ Len(all_data) = 5

(***************************************************************************)
(* Windowed wallet fetch: claims                                           *)
(***************************************************************************)
DaysRequested == (last_day + 1) \div SecondsPerDay

CeilDiv(a, b) == (a + b - 1) \div b

\* the calendar days (numbered from 0) a window touches
WindowDays(w) == (w[1] \div SecondsPerDay)..(w[2] \div SecondsPerDay)

\* C7: a fetch over N days (one calendar month) issues exactly ceil(N/15)
\* windows and no calendar day belongs to two of them.
C7_WindowCountAndDays ==
    w_pc = "done" =>
        /\ Len(windows) = CeilDiv(DaysRequested, ChunkSpanDays + 1)
        /\ \A i, j \in 1..Len(windows) :
              i # j => WindowDays(windows[i]) \cap WindowDays(windows[j]) = {}

\* the seconds just before, at and just after each midnight of the month
ProbeSeconds ==
    {d * SecondsPerDay + k : d \in 0..31, k \in {-2, -1, 0, 1, 2}}

\* C8: the windows of one fetch partition [first_day, last_day] at the
\* granularity of one second: the first starts at first_day, each later one
\* starts one second after its predecessor's end, none is empty, none passes
\* last_day, each spans at most 15 days, and once the fetch has returned the
\* last one ends at last_day, so that every second lies in exactly one window.
C8_WindowsPartition ==
    /\ \A i \in 1..Len(windows) :
          /\ windows[i][1] <= windows[i][2]
          /\ windows[i][2] <= last_day
          /\ windows[i][2] - windows[i][1] + 1 <= (ChunkSpanDays + 1) * SecondsPerDay
          /\ windows[i][1] = IF i = 1 THEN 0 ELSE windows[i - 1][2] + 1
    /\ w_pc = "done" =>
          /\ Len(windows) >= 1
          /\ windows[Len(windows)][2] = last_day
          /\ \A sec \in ProbeSeconds :
                (0 <= sec /\ sec <= last_day) =>
                    Cardinality({i \in 1..Len(windows) :
                        windows[i][1] <= sec /\ sec <= windows[i][2]}) = 1

C8_Witness ==
    /\ w_pc = "done"
    /\ Len(windows) = 3
    /\ windows[2][2] < last_day

\* DedupKey of a wallet record: create_time, order_sn, amount,
\* transaction_type and the first 100 characters of the description
DedupKey(tx) ==
    <<tx.create_time, tx.order_sn, tx.amount, tx.transaction_type,
      [i \in 1..Min(Len(tx.description), 100) |-> tx.description[i]]>>

\* the DedupKey of each record the platform can return
DedupKeyOf == [n \in Transactions |-> DedupKey(TransactionTable[n])]

\* C9: the list assembled by one windowed fetch never holds two records with
\* equal DedupKey, and the record it holds for a key is the first one met in
\* visiting order.
C9_OnePerDedupKey ==
    /\ \A i, j \in 1..Len(all_transactions) :
          i # j => DedupKeyOf[all_transactions[i]] # DedupKeyOf[all_transactions[j]]
    /\ \A i \in 1..Len(all_transactions) : all_transactions[i] \in first_met

\* a fetch has returned a record although a later window brought another
\* record with the same DedupKey
C9_Witness ==
    /\ w_pc = "done"
    /\ Len(windows) >= 2
    /\ \E i \in 1..Len(all_transactions) :
          \E o \in met \ first_met :
              /\ o # all_transactions[i]
              /\ DedupKeyOf[o] = DedupKeyOf[all_transactions[i]]

\* what a fetch none of whose requests failed can return: None, or a
\* response holding the records only
LooksComplete(result) ==
    \/ result = NoResult
    \/ result = FetchResult(result.transaction_list)

\* C16: when a page request fails in some window, the fetch still visits
\* every later window up to last_day, and what it returns tells the caller
\* that a window was left incomplete.
C16_SkippedWindowReported ==
    w_pc = "done" =>
        /\ windows # <<>> /\ windows[Len(windows)][2] = last_day
        /\ w_failed # {} => ~LooksComplete(w_result)

\* C17: once make_request has raised an authentication error in a fetch
\* (refresh failed, or both tokens expired), the fetch makes no further
\* make_request call that sends a refresh exchange or a page request, and
\* what it returns is not what a fetch without error returns.
C17_AuthErrorNotRetried ==
    /\ [][(w_auth_error /\ page_no' = page_no + 1) => w_sent' = NothingSent]_vars
    /\ [](w_pc = "done" /\ w_auth_error => ~LooksComplete(w_result))

\* C20: within one fetch, a page request that follows another page request
\* is sent after the fetch has slept the 0.5 s rate-limit delay since that
\* request: in the windowed fetch (also across windows, however the earlier
\* window ended) and in the cursor fetch.
C20_DelayBetweenPageRequests ==
    /\ [][(page_no' = page_no + 1 /\ w_sent'.page /\ w_asked)
            => w_slept >= WalletPageDelay]_vars
    /\ [][(page_count' = page_count + 1 /\ page_count >= 1)
            => cf_slept >= RateLimitDelay]_vars

(***************************************************************************)
(* Order-number hand-off file: claims                                      *)
(***************************************************************************)
\* the lines of the file are the identifiers, none repeated, and the list
\* read back holds exactly the non-empty order_sn of the input, each once
RoundTrips ==
    LET lines == Lines(ho_file, <<>>)
        ids == OrderNumbers(ho_txs)
    IN /\ {lines[i] : i \in 1..Len(lines)} = ids
       /\ Len(lines) = Cardinality(ids)
       /\ {ho_list[i] : i \in 1..Len(ho_list)} = ids
       /\ Len(ho_list) = Cardinality(ids)

\* no order_sn of the input holds a blank or a line break
CleanInput ==
    \A i \in 1..Len(ho_txs) : \A j \in 1..Len(ho_txs[i]) : ho_txs[i][j] \notin Whitespace

\* C22 as stated: for any input transactions, the file written by
\* export_order_numbers_to_file holds one identifier per line, none repeated,
\* and reading it back yields exactly the set of non-empty order_sn values
\* of the input, each once.
C22_RoundTripAnyInput == ho_pc = "read" => RoundTrips

\* C22 amended: the round trip holds when no order_sn of the input holds a
\* blank or a line break.
C22_RoundTripCleanInput == (ho_pc = "read" /\ CleanInput) => RoundTrips

\* a clean input with the same order_sn twice, read back once
C22_Witness ==
    /\ ho_pc = "read"
    /\ CleanInput
    /\ Len(ho_txs) = 2
    /\ ho_txs[1] = ho_txs[2]
    /\ ho_txs[1] # <<>>
    /\ ho_list = <<ho_txs[1]>>

(***************************************************************************)
(* TikTok request signature: claims                                        *)
(***************************************************************************)
\* the value the dict d holds for the key k
ValueOf(d, k) == (CHOOSE i \in 1..Len(d) : d[i][1] = k)

\* the logical request: the value of key k in params once the mandatory
\* parameters are set, NoValue if it has none
LogicalValue(k) ==
    IF HasKey(MandatoryParams, k) THEN MandatoryParams[ValueOf(MandatoryParams, k)][2]
    ELSE IF HasKey(sg_input, k) THEN sg_input[ValueOf(sg_input, k)][2]
    ELSE NoValue

RECURSIVE CanonicalParams(_)
\* "key" + "value" of the keys from the i-th of the alphabet on, the
\* access_token, the sign and the keys without value left out
CanonicalParams(i) ==
    IF i > Len(KeysInOrder) THEN <<>>
    ELSE LET k == KeysInOrder[i]
         IN (IF k \in ExcludeKeys \/ LogicalValue(k) = NoValue THEN <<>>
             ELSE <<k, LogicalValue(k)>>) \o CanonicalParams(i + 1)

RECURSIVE CanonicalMembers(_, _)
\* the members of the body from the i-th key of the alphabet on
CanonicalMembers(i, first) ==
    IF i > Len(KeysInOrder) THEN <<>>
    ELSE LET k == KeysInOrder[i]
         IN IF HasKey(sg_payload, k)
            THEN (IF first THEN <<>> ELSE <<",">>)
                 \o <<k, ":", sg_payload[ValueOf(sg_payload, k)][2]>>
                 \o CanonicalMembers(i + 1, FALSE)
            ELSE CanonicalMembers(i + 1, first)

CanonicalBody ==
    IF sg_payload = NoPayload THEN <<>>
    ELSE <<"{">> \o CanonicalMembers(1, TRUE) \o <<"}">>

\* C23: the text that is signed is a function of the logical request alone:
\* secret + endpoint + key and value of the parameters in alphabetical order
\* of the keys, whatever their insertion order and whatever access_token and
\* sign the params hold, + the body with sorted keys and compact separators
\* + secret; that body is the body sent, and the sign parameter sent is the
\* HMAC of that text.
C23_SignatureCanonical ==
    sg_pc = "sent" =>
        /\ sg_base = <<AppSecret, TiktokEndpoint>> \o CanonicalParams(1)
                        \o CanonicalBody \o <<AppSecret>>
        /\ sg_body = (IF sg_payload = NoPayload THEN NoJson ELSE CanonicalBody)
        /\ sg_params[ValueOf(sg_params, "sign")][2] = HmacSha256(AppSecret, sg_base)

\* a request whose params hold an access_token and two keys inserted
\* against the alphabet, with a payload inserted against the alphabet
C23_Witness ==
    /\ sg_pc = "sent"
    /\ Len(sg_input) = 3
    /\ sg_input[1] = <<"page_size", "1">>
    /\ sg_input[2][1] = "access_token"
    /\ sg_input[3] = <<"cursor", "2">>
    /\ sg_payload = << <<"page_size", "2">>, <<"order_status", "1">> >>

(***************************************************************************)
(* Sheet writer: claims                                                    *)
(***************************************************************************)
\* C10: with 2 credentials, a write that started with retry_count = 0 and
\* credential index 0 and has failed twice, both times with a quota error,
\* makes its next attempt with credential index 1.
C10_RotateAfterTwoQuota ==
    ( /\ sk_pc = "attempt"
      /\ ncreds = 2 /\ retry0 = 0 /\ index0 = 0
      /\ Len(sk_log) = 2
      /\ \A i \in 1..2 : sk_log[i][2] = "quota" )
    => current_account_index = 1 /\ client_index = 1

\* C11: the writer rotates only with more than one credential and only when
\* the failures that reach the threshold (the last 2 attempts of the write,
\* the current one included) are quota failures; a generic failure never
\* counts toward the threshold, and a single credential is never left.
C11_RotateOnlyOnQuotaRun ==
    [][current_account_index' # current_account_index =>
          /\ ncreds > 1
          /\ Len(sk_log') >= 2
          /\ \A i \in (Len(sk_log') - 1)..Len(sk_log') : sk_log'[i][2] = "quota"]_vars

\* C12: a write ends either with True at its first successful attempt or
\* with False after exactly 5 failed attempts, and in no other way.
C12_EndsTrueOrFalse ==
    sk_pc = "done" =>
        /\ Len(sk_log) <= MaxRetries
        /\ \/ /\ sk_result = "True"
              /\ sk_log[Len(sk_log)][2] = "ok"
              /\ \A i \in 1..(Len(sk_log) - 1) : sk_log[i][2] # "ok"
           \/ /\ sk_result = "False"
              /\ Len(sk_log) = MaxRetries
              /\ \A i \in 1..Len(sk_log) : sk_log[i][2] # "ok"

\* 1.5, 3, 6, 12, 24, 48, 60, 60, ... seconds, in quarter seconds
ExpectedDelay(n) ==
    IF n < 6 THEN <<6, 12, 24, 48, 96, 192>>[n + 1] ELSE 240

\* C13: while failures accumulate without a rotation, the delay enforced
\* before the attempt that follows n counted failures is
\* min(1.5 s * 2^n, 60 s): the sequence 1.5, 3, 6, 12, 24, 48, 60, 60, ...
\* is non-decreasing and never exceeds 60 s, and no request is made sooner
\* than that delay after the request before it.
C13_BackoffSequence ==
    /\ [](/\ \A i \in 1..Len(sk_delays) :
                /\ sk_delays[i] = ExpectedDelay(i - 1)
                /\ sk_delays[i] <= 240
          /\ \A i \in 1..(Len(sk_delays) - 1) : sk_delays[i] <= sk_delays[i + 1])
    /\ [][(attempt' = attempt + 1 /\ last_request_time # 0 /\ last_request_time' # 0)
            => last_request_time' - last_request_time >= ExpectedDelay(retry_count)]_vars

\* eight generic failures in a row over two writes: the cap is reached
C13_Witness ==
    /\ Len(sk_delays) = 8
    /\ sk_delays[8] = 240
    /\ writes = 2
    /\ \A i \in 1..Len(sk_log) : sk_log[i][2] = "generic"

\* C18: the callers of update_status on the shared writer are serialized:
\* between a caller's check of last_request_time and its update of it no
\* other caller updates last_request_time, and while a caller is between its
\* read of retry_count (the should_switch test) and its write of it (the
\* increment, or the reset that ends a rotation) no other caller changes
\* retry_count or current_account_index.
C18_WritersSerialized ==
    [][\A t \in Threads :
          /\ (wr[t].pc = "sleep" /\ wr'[t] = wr[t])
                => last_request_time' = last_request_time
          /\ (wr[t].pc \in {"wait", "init"} /\ wr'[t] = wr[t])
                => /\ retry_count' = retry_count
                   /\ current_account_index' = current_account_index]_vars

\* C27: retry_count is 0 whenever update_status begins: failures of an
\* earlier write are never carried into a later write.
C27_WriteStartsAtZero ==
    [][(sk_pc = "idle" /\ sk_pc' = "attempt") => retry_count = 0]_vars

\* C28: current_account_index is a valid index of credentials_files and the
\* active client is the one authorized with credentials_files of that
\* index, also after a rotation whose _initialize_client failed.
C28_ClientMatchesIndex ==
    /\ current_account_index \in 0..(ncreds - 1)
    /\ client_index = current_account_index

(***************************************************************************)
(* Destination worksheet: claims                                           *)
(***************************************************************************)
\* C14: an upload that reports failure leaves the rows of the worksheet as
\* they were when it started; a successful upload clears the worksheet at
\* most once and writes its rows exactly once.
C14_NoPartialApplication ==
    [][(up_pc # "done" /\ up_pc' = "done") =>
          /\ up_result' = "False" => ws_content' = ws_content
          /\ up_result' = "True" => up_clears' <= 1 /\ up_updates' = 1]_vars

\* C15: when the creation of the worksheet fails because the worksheet
\* appeared in the meantime ("already exists"), the writer goes on with the
\* existing worksheet: upload_to_sheet proceeds to write, and
\* _get_or_create_worksheet looks the existing worksheet up.
C15_AlreadyExistsFallsBack ==
    [][/\ (up_pc = "create" /\ ws_exists /\ up_pc' # up_pc) => up_pc' = "write"
       /\ (gc_pc = "add" /\ ws_exists /\ gc_pc' # gc_pc) => gc_pc' = "fallback"]_vars

(***************************************************************************)
(* Credential files: claims                                                *)
(***************************************************************************)
\* C29: for each platform and every credential state, load_config on a file
\* written by save_config succeeds and restores the fields that were saved,
\* the default empty credential written on a first load included.
C29_ConfigRoundTrip ==
    cm_pc = "loaded" => (cm_loaded.ok /\ cm_loaded.self = cm_self)

(***************************************************************************)
(* Spreadsheet credential: claims                                          *)
(***************************************************************************)
\* C30: a failed refresh in _authenticate leaves the token file as it was,
\* and a token file that holds a credential stops holding one only by a
\* logout.
C30_FailedRefreshKeepsTokenFile ==
    [][/\ (ga_pc = "idle" /\ ga_pc' = "returned" /\ ga_refresh' = "failed")
            => token_file' = token_file
       /\ (token_file.kind = "creds" /\ token_file'.kind # "creds")
            => ga_op' = "logout"]_vars

====
